---------------------------- MODULE Spec2Model ----------------------------
(***************************************************************************)
(* Turn-taking and interruption controller of quietbox-demo.               *)
(*                                                                         *)
(*   run_loop (main.py)                 the controller, one sequential flow *)
(*   SpeechMonitor (speech_monitor.py)  the interrupt signal, its audio     *)
(*                                      callback and its detection thread   *)
(*   InterruptibleTTS (interruptible_tts.py)  the player and its polling    *)
(*                                      loop                                *)
(*   Recorder (record_vad.py)           record_to_wav and its stop rules    *)
(*                                                                         *)
(* Spec     run_loop driving the monitor and the player.                    *)
(* SpecMon  a SpeechMonitor driven by an arbitrary caller of its four       *)
(*          methods.                                                        *)
(* SpecRec  calls of Recorder.record_to_wav, frame by frame.                *)
(* SpecLive      Spec with the fairness of the threads and the device.     *)
(* SpecBlocking  record_to_wav and _play_with_interruption, one call at a   *)
(*               time.                                                      *)
(* SpecPlay      one call of _play_with_interruption, statement by         *)
(*               statement, with interrupt() on another thread.            *)
(* SpecWake      listen() of the two wake-word backends                     *)
(*               (wakeword_whisper.py, wakeword_open.py).                   *)
(*                                                                         *)
(* Time is not modelled: the monitor thread, the audio callbacks, the       *)
(* output device and the controller interleave freely.  RMS values are in   *)
(* units of the monitor's threshold step (0.001), durations of recordings   *)
(* in tenths of a second, playback time in polling intervals (50 ms).       *)
(***************************************************************************)
EXTENDS Naturals, Sequences, FiniteSets

\* ------------------------------------------------------------------ bounds
\* frames the monitor's queue holds in the model (queue.Queue is unbounded)
MaxQueue == 2
\* longest reply, in polling intervals
MaxTicks == 2
\* the ghost counter of consecutive interruptions saturates here
MaxInterrupts == 2

\* ------------------------------------------------------- program constants
\* SpeechMonitor(threshold=0.001), in units of 0.001
Threshold == 1
\* consecutive qualifying frames that raise the signal
OnsetFrames == 3
\* the too-short gate, 0.3 s, in tenths of a second
MinDuration == 3

\* RMS of a captured block: below, at and above the threshold
RmsLevels == {Threshold - 1, Threshold, Threshold + 1}
\* duration of a recording: below the gate, at it, above it
Durations == {MinDuration - 1, MinDuration, MinDuration + 1}
\* what record_to_wav leaves in the file: a length, and whether any frame
\* was voiced
Utterances == [len : Durations, hasSpeech : BOOLEAN]
\* no recording made yet in this turn
NoUtterance == [len |-> 0, hasSpeech |-> FALSE]

VARIABLES
    \* configuration, fixed by build_pipeline and run_loop's arguments
    use_wake_word,      \* run_loop(use_wake_word=...)
    tts_kind,           \* "coqui": tts_engine has attribute tts; else "pyttsx3"
    \* run_loop
    pc,                 \* program point of run_loop
    state,              \* TurnState of that program point
    was_interrupted,    \* local of run_loop
    duration,           \* local of run_loop (tenths of a second)
    utterance,          \* ghost: the recording record_to_wav wrote last, its
                        \* length (tenths of a second) and hasSpeech
    reply,              \* "none" | "empty" | "words"
    exc,                \* exception propagating in / out of run_loop
    interruptions,      \* ghost: consecutive interruptions of this turn
    log,                \* ghost: monitor and speak calls of this Speaking phase
    \* SpeechMonitor
    has_event,          \* hasattr(self, 'speech_detected')
    speech_detected,    \* the Event's flag
    is_monitoring,
    stream,             \* "none" | "active" | "closed"
    q,                  \* self.q: RMS levels of the queued blocks
    thr,                \* monitor thread: "none" | "head" | "get" | "done"
    csf,                \* consecutive_speech_frames of the thread
    seen,               \* ghost: the last OnsetFrames - 1 blocks the thread evaluated
    stale,              \* ghost: how many blocks at the head of q an earlier session left
    \* InterruptibleTTS
    ppc,                \* position inside speak
    is_speaking,
    stop_playback,
    device,             \* output device: "idle" | "playing" | "finished" | "stopped" | "error"
    elapsed,            \* polling intervals counted by the loop
    total,              \* total_duration in polling intervals
    outcome,            \* ghost: how the last speak call ended
    \* ghosts of the signal
    onset_playing,      \* raised while the device played, in this speak call
    raised,             \* raised, and reset() not called since
    \* caller of SpecMon
    hpc,                \* "idle" | "join"
    last_check,         \* "none" | "true" | "false": the check made last, if
                        \* no other method was called since
    set_at_stop,        \* ghost: signal was set when stop_monitoring was called
    resets,             \* ghost: reset() calls made in a row, up to 2
    \* Recorder.record_to_wav (times in ms since `start`)
    rpc,                \* "idle" | "loop" | "write" | "done" | "raised"
    frames,             \* the list frames: arrival numbers of the frames appended
    read,               \* ghost: frames stream.read has delivered in this call
    rec_elapsed,        \* elapsed, as of the last frame
    last_speech_time,   \* last_speech_time - start
    rec_speech_detected,\* the local speech_detected of record_to_wav
    stalls,             \* ghost: reads of this call that took longer than a frame
    stop_rule,          \* ghost: "none" | "no_speech" | "silence" | "max"
    written,            \* the wav file of this call exists
    saved,              \* the frames in the wav file
    \* _play_with_interruption, step by step (SpecPlay)
    cbs,                \* which of interrupt_check_callback, ui_callback and
                        \* ui_process_events the call was given
    audio,              \* audio_data: the level of each 50 ms chunk
    calls,              \* ghost: what the current tick has done so far
    writes,             \* ghost: calls of sd.play in this call
    sent,               \* ghost: the levels passed to ui_callback in this call
    ipc,                \* interrupt() of another thread: "idle" | "armed"
                        \* | "set"
    \* WakeWordDetector.listen of the two backends (SpecWake)
    wk_backend,         \* "whisper" (wakeword_whisper) | "open" (wakeword_open)
    wpc,                \* position of listen(): "unbuilt" | "idle" | ... |
                        \* "returned" | "raised"
    cooldown_frames,    \* self.cooldown_frames of wakeword_open
    score_len,          \* len(self.score_history) of wakeword_open
    wq,                 \* blocks in self.q of wakeword_open
    wk_last             \* ghost: what listen() did last

cfgVars == <<use_wake_word, tts_kind>>
ctlVars == <<pc, state, was_interrupted, duration, utterance, reply, exc,
             interruptions, log>>
ctlNoExc == <<pc, state, was_interrupted, duration, utterance, reply,
              interruptions, log>>
monVars == <<has_event, speech_detected, is_monitoring, stream, q, thr, csf, seen,
             stale>>
plyVars == <<ppc, is_speaking, stop_playback, device, elapsed, total, outcome>>
sigVars == <<onset_playing, raised>>
hrnVars == <<hpc, last_check, set_at_stop, resets>>
recVars == <<rpc, frames, read, rec_elapsed, last_speech_time, rec_speech_detected,
             stalls, stop_rule, written, saved>>
tckVars == <<cbs, audio, calls, writes, sent, ipc>>
wakVars == <<wk_backend, wpc, cooldown_frames, score_len, wq, wk_last>>
vars == <<cfgVars, ctlVars, monVars, plyVars, sigVars, hrnVars, recVars, tckVars,
         wakVars>>

\* the callbacks of a speak call: none given
NoCallbacks == [poll |-> FALSE, level |-> FALSE, ui |-> FALSE]

\* ============================================================ SpeechMonitor

\* ghost bookkeeping: the most recent OnsetFrames - 1 entries of a history
LastBlocks(s) ==
    IF Len(s) <= OnsetFrames - 1 THEN s
    ELSE SubSeq(s, Len(s) - (OnsetFrames - 1) + 1, Len(s))

\* check_interrupt(): the flag, False while no Event exists
check_interrupt == has_event /\ speech_detected

\* _audio_callback: the stream's callback enqueues one block
audio_callback(r) ==
    /\ stream = "active"
    /\ Len(q) < MaxQueue
    /\ q' = Append(q, r)
    /\ UNCHANGED <<has_event, speech_detected, is_monitoring, stream, thr, csf, seen, stale>>

\* _monitor_loop, the test of `while self.is_monitoring`; the thread's local
\* counter is gone (0 in the model) once the thread has ended
monitor_loop_head ==
    /\ thr = "head"
    /\ thr' = IF is_monitoring THEN "get" ELSE "done"
    /\ csf' = IF is_monitoring THEN csf ELSE 0
    /\ seen' = IF is_monitoring THEN seen ELSE <<>>
    /\ stale' = IF is_monitoring THEN stale ELSE 0
    /\ UNCHANGED <<has_event, speech_detected, is_monitoring, stream, q>>

\* a plausible bug: qualifying blocks are counted in total, the count is not
\* reset by a block at or below the threshold
monitor_loop_get_total ==
    /\ thr = "get"
    /\ IF q = <<>>
       THEN /\ thr' = "head"
            /\ UNCHANGED <<speech_detected, q, csf, seen, stale>>
       ELSE /\ q' = Tail(q)
            /\ stale' = IF (Head(q) > Threshold /\ csf + 1 >= OnsetFrames) \/ stale = 0
                        THEN 0 ELSE stale - 1
            /\ IF Head(q) > Threshold /\ csf + 1 >= OnsetFrames
               THEN /\ csf' = 0
                    /\ seen' = <<>>
                    /\ speech_detected' = TRUE
                    /\ thr' = "done"
               ELSE /\ csf' = (IF Head(q) > Threshold THEN csf + 1 ELSE csf)
                    /\ seen' = LastBlocks(Append(seen, Head(q)))
                    /\ thr' = "head"
                    /\ UNCHANGED speech_detected
    /\ UNCHANGED <<has_event, is_monitoring, stream>>

\* _monitor_loop, one q.get(timeout=0.1) and the evaluation of the block
monitor_loop_get ==
    /\ thr = "get"
    /\ IF q = <<>>
       THEN \* queue.Empty: continue
            /\ thr' = "head"
            /\ UNCHANGED <<speech_detected, q, csf, seen, stale>>
       ELSE /\ q' = Tail(q)
            /\ stale' = IF (Head(q) > Threshold /\ csf + 1 >= OnsetFrames) \/ stale = 0
                        THEN 0 ELSE stale - 1
            /\ IF Head(q) > Threshold
               THEN IF csf + 1 >= OnsetFrames
                    THEN /\ csf' = 0
                         /\ seen' = <<>>
                         /\ speech_detected' = TRUE
                         /\ thr' = "done"
                    ELSE /\ csf' = csf + 1
                         /\ seen' = LastBlocks(Append(seen, Head(q)))
                         /\ thr' = "head"
                         /\ UNCHANGED speech_detected
               ELSE /\ csf' = 0
                    /\ seen' = LastBlocks(Append(seen, Head(q)))
                    /\ thr' = "head"
                    /\ UNCHANGED speech_detected
    /\ UNCHANGED <<has_event, is_monitoring, stream>>

\* start_monitoring(): a fresh Event, the stream opened, the thread started
start_monitoring ==
    /\ has_event' = TRUE
    /\ speech_detected' = FALSE
    /\ is_monitoring' = TRUE
    /\ stream' = "active"
    /\ thr' = "head"
    /\ csf' = 0
    /\ seen' = <<>>
    /\ stale' = Len(q)
    /\ UNCHANGED q

\* start_monitoring() when sd.InputStream raises: the Event and the flag are
\* already assigned, no stream and no thread exist
start_monitoring_fails ==
    /\ has_event' = TRUE
    /\ speech_detected' = FALSE
    /\ is_monitoring' = TRUE
    /\ UNCHANGED <<stream, q, thr, csf, seen, stale>>

\* a plausible bug: stop_monitoring() leaves the stream open
stop_monitoring_halt_keeps_stream ==
    /\ is_monitoring' = FALSE
    /\ UNCHANGED <<has_event, speech_detected, stream, q, thr, csf, seen, stale>>

\* a plausible bug: stop_monitoring() also clears the flag
stop_monitoring_halt_clears ==
    /\ is_monitoring' = FALSE
    /\ stream' = IF stream = "none" THEN "none" ELSE "closed"
    /\ speech_detected' = FALSE
    /\ UNCHANGED <<has_event, q, thr, csf, seen, stale>>

\* stop_monitoring(), up to the join: the flag down, the stream stopped and
\* closed; speech_detected is left alone
stop_monitoring_halt ==
    /\ is_monitoring' = FALSE
    /\ stream' = IF stream = "none" THEN "none" ELSE "closed"
    /\ UNCHANGED <<has_event, speech_detected, q, thr, csf, seen, stale>>

\* stop_monitoring(), the join: returns once the thread has ended (the thread
\* tests is_monitoring at least every 0.1 s, the join waits 0.5 s)
stop_monitoring_join == thr \in {"none", "done"}

\* a plausible bug: reset() without the hasattr test raises AttributeError
\* on a monitor that was never started
reset_unguarded ==
    /\ has_event
    /\ speech_detected' = FALSE
    /\ UNCHANGED <<has_event, is_monitoring, stream, q, thr, csf, seen, stale>>

\* reset(): clear the flag if the Event exists
reset ==
    /\ speech_detected' = (IF has_event THEN FALSE ELSE speech_detected)
    /\ UNCHANGED <<has_event, is_monitoring, stream, q, thr, csf, seen, stale>>

\* ========================================================= InterruptibleTTS
\* elapsed and total are locals of _play_with_interruption: they are 0 in the
\* model whenever that call is not running.

\* the run_loop program points that are a call of tts.speak
SpeakSites == {"speak_apology", "speak_thinking", "speak_reply",
               "fu_speak_apology", "fu_speak_thinking"}

\* only the speak of the reply passes interrupt_check_callback
has_callback == pc = "speak_reply"

\* the text of the call: the reply, or a fixed non-empty phrase
speak_text == IF pc = "speak_reply" THEN reply ELSE "words"

\* speak(): nothing for an empty text, else the Coqui or the pyttsx3 path
speak_enter ==
    /\ ppc = "call"
    /\ IF speak_text # "words"
       THEN ppc' = "ret" /\ outcome' = "none"
       ELSE /\ ppc' = (IF tts_kind = "coqui" THEN "synth" ELSE "pyttsx")
            /\ outcome' = "pending"
    /\ UNCHANGED <<is_speaking, stop_playback, device, elapsed, total>>

\* _speak_interruptible_coqui: tts_to_file wrote the file and it was read
synth_ok ==
    /\ ppc = "synth"
    /\ ppc' = "play"
    /\ UNCHANGED <<is_speaking, stop_playback, device, elapsed, total, outcome>>

\* _speak_interruptible_coqui: synthesis or the read raised; the except
\* clause falls back to tts_engine.speak(text)
synth_fails ==
    /\ ppc = "synth"
    /\ ppc' = "fallback"
    /\ UNCHANGED <<is_speaking, stop_playback, device, elapsed, total, outcome>>

\* the fallback, TTSLocal.speak of tts_coqui: synthesizes and plays to the
\* end, swallows every Exception
fallback_speak ==
    /\ ppc = "fallback"
    /\ ppc' = "ret"
    /\ outcome' = "Fallback"
    /\ UNCHANGED <<is_speaking, stop_playback, device, elapsed, total>>

\* _play_with_interruption, entry: flags, then sd.play of the whole buffer
play_start ==
    /\ ppc = "play"
    /\ is_speaking' = TRUE
    /\ stop_playback' = FALSE
    /\ device' = "playing"
    /\ elapsed' = 0
    /\ \E n \in 1..MaxTicks : total' = n
    /\ ppc' = "loop"
    /\ UNCHANGED outcome

\* _play_with_interruption, entry, when sd.play raises
play_start_fails ==
    /\ ppc = "play"
    /\ is_speaking' = TRUE
    /\ stop_playback' = FALSE
    /\ ppc' = "handler"
    /\ UNCHANGED <<device, elapsed, total, outcome>>

\* the while test without the elapsed-time estimate: `while True`
while_elapsed_below_total_always == {TRUE}

\* `while elapsed < total_duration`, elapsed being a float that accumulates
\* check_interval = 0.05: after k additions the sum is k * 0.05 up to
\* rounding (93 additions give 4.6499999999999915, below 4.65), so when the
\* count has reached a total that is a whole number of intervals the test
\* may still hold once more; it fails for every larger count
while_elapsed_below_total ==
    IF elapsed = total THEN BOOLEAN ELSE {elapsed < total}

\* _play_with_interruption: the while test and one iteration of the polling
\* loop (local stop flag, interrupt poll, device-finished test, sleep)
poll_loop ==
    /\ ppc = "loop"
    /\ \E again \in while_elapsed_below_total :
       IF ~again
       THEN ppc' = "after" /\ UNCHANGED <<stop_playback, device, elapsed>>
       ELSE IF stop_playback
       THEN ppc' = "after" /\ device' = "stopped" /\ UNCHANGED <<stop_playback, elapsed>>
       ELSE IF has_callback /\ check_interrupt
       THEN ppc' = "after" /\ stop_playback' = TRUE /\ device' = "stopped"
            /\ UNCHANGED elapsed
       ELSE IF device # "playing"
       THEN ppc' = "after" /\ UNCHANGED <<stop_playback, device, elapsed>>
       ELSE ppc' = "loop" /\ elapsed' = elapsed + 1 /\ UNCHANGED <<stop_playback, device>>
    /\ UNCHANGED <<is_speaking, total, outcome>>

\* _play_with_interruption after the loop: sd.wait() unless stopped
after_loop ==
    /\ ppc = "after"
    /\ IF stop_playback
       THEN /\ ppc' = "ret" /\ is_speaking' = FALSE /\ outcome' = "Cancelled"
            /\ elapsed' = 0 /\ total' = 0
       ELSE ppc' = "drain" /\ UNCHANGED <<is_speaking, outcome, elapsed, total>>
    /\ UNCHANGED <<stop_playback, device>>

\* sd.wait() returns once the device no longer plays (an error of sd.wait is
\* swallowed); finally: is_speaking = False
drain ==
    /\ ppc = "drain"
    /\ device # "playing"
    /\ ppc' = "ret"
    /\ is_speaking' = FALSE
    /\ outcome' = (IF device = "error" THEN "Failed" ELSE "Completed")
    /\ elapsed' = 0 /\ total' = 0
    /\ UNCHANGED <<stop_playback, device>>

\* a plausible bug: the handler without the finally clause
play_handler_keeps_speaking ==
    /\ ppc = "handler"
    /\ device' = "stopped"
    /\ ppc' = "ret"
    /\ outcome' = "Failed"
    /\ UNCHANGED <<is_speaking, stop_playback, elapsed, total>>

\* _play_with_interruption, except Exception: sd.stop(); finally
play_handler ==
    /\ ppc = "handler"
    /\ device' = "stopped"
    /\ is_speaking' = FALSE
    /\ ppc' = "ret"
    /\ outcome' = "Failed"
    /\ UNCHANGED <<stop_playback, elapsed, total>>

\* _speak_interruptible_pyttsx3: engine.say, engine.runAndWait ran to the end
pyttsx_done ==
    /\ ppc = "pyttsx"
    /\ ppc' = "ret"
    /\ outcome' = "Completed"
    /\ UNCHANGED <<is_speaking, stop_playback, device, elapsed, total>>

\* _speak_interruptible_pyttsx3: the engine raised; nothing catches it
pyttsx_raises ==
    /\ ppc = "pyttsx"
    /\ ppc' = "raised"
    /\ outcome' = "Raised"
    /\ UNCHANGED <<is_speaking, stop_playback, device, elapsed, total>>

\* Ctrl-C while the polling loop sleeps or the pyttsx3 engine runs: no
\* `except Exception` catches KeyboardInterrupt; finally: is_speaking = False
speak_keyboard_interrupt ==
    /\ ppc \in {"loop", "pyttsx"}
    /\ ppc' = "raised"
    /\ is_speaking' = FALSE
    /\ outcome' = "Raised"
    /\ elapsed' = 0 /\ total' = 0
    /\ UNCHANGED <<stop_playback, device>>

\* the output device plays the buffer to its end
device_finish ==
    /\ device = "playing"
    /\ device' = "finished"
    /\ UNCHANGED <<ppc, is_speaking, stop_playback, elapsed, total, outcome>>

\* the output device fails while playing: the stream is no longer active
device_fail ==
    /\ device = "playing"
    /\ device' = "error"
    /\ UNCHANGED <<ppc, is_speaking, stop_playback, elapsed, total, outcome>>


\* ================================================================= run_loop

\* the monitor thread and the audio callback, with the ghosts of the signal
MonitorLoopHead ==
    /\ monitor_loop_head
    /\ UNCHANGED <<cfgVars, wakVars, recVars, tckVars, ctlVars, plyVars, sigVars, hrnVars>>

MonitorLoopGet ==
    /\ monitor_loop_get
    /\ raised' = (raised \/ (speech_detected' /\ ~speech_detected))
    /\ onset_playing' = (onset_playing \/ (/\ speech_detected' /\ ~speech_detected
                                           /\ device = "playing"
                                           /\ ppc \in {"loop", "after", "drain"}))
    /\ UNCHANGED <<cfgVars, wakVars, recVars, tckVars, ctlVars, plyVars, hrnVars>>

AudioCallback ==
    /\ \E r \in RmsLevels : audio_callback(r)
    /\ UNCHANGED <<cfgVars, wakVars, recVars, tckVars, ctlVars, plyVars, sigVars, hrnVars>>

\* steps of the player that touch the player only
PlayerOnly(step) ==
    /\ step
    /\ UNCHANGED <<cfgVars, wakVars, recVars, tckVars, ctlVars, monVars, sigVars, hrnVars>>

SynthOk == PlayerOnly(synth_ok)
SynthFails == PlayerOnly(synth_fails)
FallbackSpeak == PlayerOnly(fallback_speak)
PlayStart == PlayerOnly(play_start)
PlayStartFails == PlayerOnly(play_start_fails)
PollLoop == PlayerOnly(poll_loop)
AfterLoop == PlayerOnly(after_loop)
Drain == PlayerOnly(drain)
PlayHandler == PlayerOnly(play_handler)
PyttsxDone == PlayerOnly(pyttsx_done)
DeviceFinish == PlayerOnly(device_finish)
DeviceFail == PlayerOnly(device_fail)

\* steps of the player that leave speak by an exception
PyttsxRaises ==
    /\ pyttsx_raises
    /\ exc' = "tts"
    /\ UNCHANGED <<cfgVars, wakVars, recVars, tckVars, ctlNoExc, monVars, sigVars, hrnVars>>

SpeakKeyboardInterrupt ==
    /\ speak_keyboard_interrupt
    /\ exc' = "kbd"
    /\ UNCHANGED <<cfgVars, wakVars, recVars, tckVars, ctlNoExc, monVars, sigVars, hrnVars>>

\* an exception leaves run_loop: nothing in run_loop catches it
Propagate(e) ==
    /\ pc' = "raised"
    /\ exc' = e

\* the end of a turn that goes back to the top of `while True`
TurnEnds ==
    /\ pc' = "loop_top"
    /\ state' = "AwaitingTrigger"

\* was_interrupted, duration and reply are assigned again (lines 233/262/277,
\* 330/356) before run_loop reads them in the next recording: the model
\* forgets them, and the ghost of the last speak call, where a recording or
\* the wait for the trigger begins
ForgetLocals ==
    /\ was_interrupted' = FALSE
    /\ duration' = 0
    /\ utterance' = NoUtterance
    /\ reply' = "none"
    /\ outcome' = "none"

\* top of `while True`: the UI tick, then the wait for the trigger begins
LoopTop ==
    /\ pc = "loop_top"
    /\ pc' = "wait_trigger"
    /\ state' = "AwaitingTrigger"
    /\ interruptions' = 0
    /\ log' = <<>>
    /\ ForgetLocals
    /\ UNCHANGED exc
    /\ UNCHANGED <<ppc, is_speaking, stop_playback, device, elapsed, total>>
    /\ UNCHANGED <<cfgVars, wakVars, recVars, tckVars, monVars, sigVars, hrnVars>>

\* wake.listen(ui_process_events=...): listen(self) of wakeword_whisper takes
\* no such argument, the call raises TypeError
WakeListen ==
    /\ pc = "wait_trigger"
    /\ use_wake_word
    /\ Propagate("listen")
    /\ UNCHANGED <<state, was_interrupted, duration, utterance, reply, interruptions, log>>
    /\ UNCHANGED <<cfgVars, wakVars, recVars, tckVars, monVars, plyVars, sigVars, hrnVars>>

\* input() returns: Enter was pressed; chime, countdown, recording begins
TriggerEnter ==
    /\ pc = "wait_trigger"
    /\ ~use_wake_word
    /\ pc' = "record"
    /\ state' = "Recording"
    /\ UNCHANGED <<was_interrupted, duration, utterance, reply, exc, interruptions, log>>
    /\ UNCHANGED <<cfgVars, wakVars, recVars, tckVars, monVars, plyVars, sigVars, hrnVars>>

\* input() raises KeyboardInterrupt: break, run_loop returns
TriggerKeyboardInterrupt ==
    /\ pc = "wait_trigger"
    /\ ~use_wake_word
    /\ pc' = "returned"
    /\ UNCHANGED <<state, was_interrupted, duration, utterance, reply, exc, interruptions, log>>
    /\ UNCHANGED <<cfgVars, wakVars, recVars, tckVars, monVars, plyVars, sigVars, hrnVars>>

\* rec.record_to_wav returned a file of u.len tenths of a second, recorded
\* with or without a voiced frame (record_to_wav returns the path only), then
\* the duration gate: `readable` is whether wave.open succeeded
record_and_gate(here, next) ==
    /\ pc = here
    /\ \E u \in Utterances, readable \in BOOLEAN :
        /\ utterance' = u
        /\ IF readable /\ u.len < MinDuration
           THEN /\ duration' = u.len
                /\ pc' = "loop_top"
                /\ state' = "Idle"
           ELSE /\ duration' = (IF readable THEN u.len ELSE 0)
                /\ pc' = next
                /\ state' = "Transcribing"
    /\ UNCHANGED <<was_interrupted, reply, exc, interruptions, log>>
    /\ UNCHANGED <<cfgVars, wakVars, recVars, tckVars, monVars, plyVars, sigVars, hrnVars>>

\* rec.record_to_wav raises: sd.InputStream could not be opened
record_fails(here) ==
    /\ pc = here
    /\ Propagate("record")
    /\ UNCHANGED <<state, was_interrupted, duration, utterance, reply, interruptions, log>>
    /\ UNCHANGED <<cfgVars, wakVars, recVars, tckVars, monVars, plyVars, sigVars, hrnVars>>

\* stt.transcribe returned (the recording is not used after it, the ghost
\* forgets it): an empty text ends the turn, after the apology
\* when duration >= 0.3; a non-empty text goes on to speak("Thinking")
transcribe_and_branch(here, apology, thinking) ==
    /\ pc = here
    /\ \E text \in {"empty", "words"} :
        IF text = "empty"
        THEN IF duration >= MinDuration
             THEN pc' = apology /\ ppc' = "call" /\ UNCHANGED state
             ELSE TurnEnds /\ UNCHANGED ppc
        ELSE pc' = thinking /\ ppc' = "call" /\ UNCHANGED state
    /\ utterance' = NoUtterance
    /\ UNCHANGED <<was_interrupted, duration, reply, exc, interruptions, log>>
    /\ UNCHANGED <<is_speaking, stop_playback, device, elapsed, total, outcome>>
    /\ UNCHANGED <<cfgVars, wakVars, recVars, tckVars, monVars, sigVars, hrnVars>>

\* stt.transcribe raises
transcribe_fails(here) ==
    /\ pc = here
    /\ Propagate("stt")
    /\ UNCHANGED <<state, was_interrupted, duration, utterance, reply, interruptions, log>>
    /\ UNCHANGED <<cfgVars, wakVars, recVars, tckVars, monVars, plyVars, sigVars, hrnVars>>

\* the apology was spoken: continue / break
after_apology(here) ==
    /\ pc = here
    /\ ppc = "ret"
    /\ ppc' = "idle"
    /\ TurnEnds
    /\ UNCHANGED <<was_interrupted, duration, utterance, reply, exc, interruptions, log>>
    /\ UNCHANGED <<is_speaking, stop_playback, device, elapsed, total, outcome>>
    /\ UNCHANGED <<cfgVars, wakVars, recVars, tckVars, monVars, sigVars, hrnVars>>

\* "Thinking" was spoken: llm.respond is called
after_thinking(here, next) ==
    /\ pc = here
    /\ ppc = "ret"
    /\ ppc' = "idle"
    /\ pc' = next
    /\ state' = "Generating"
    /\ UNCHANGED <<was_interrupted, duration, utterance, reply, exc, interruptions, log>>
    /\ UNCHANGED <<is_speaking, stop_playback, device, elapsed, total, outcome>>
    /\ UNCHANGED <<cfgVars, wakVars, recVars, tckVars, monVars, sigVars, hrnVars>>

\* llm.respond returned the reply (possibly empty)
respond_returns(here) ==
    /\ pc = here
    /\ \E r \in {"empty", "words"} : reply' = r
    /\ pc' = "start_mon"
    /\ UNCHANGED <<state, was_interrupted, duration, utterance, exc, interruptions, log>>
    /\ UNCHANGED <<cfgVars, wakVars, recVars, tckVars, monVars, plyVars, sigVars, hrnVars>>

\* llm.respond raises
respond_fails(here) ==
    /\ pc = here
    /\ Propagate("llm")
    /\ UNCHANGED <<state, was_interrupted, duration, utterance, reply, interruptions, log>>
    /\ UNCHANGED <<cfgVars, wakVars, recVars, tckVars, monVars, plyVars, sigVars, hrnVars>>

\* the initial turn
Record == record_and_gate("record", "transcribe")
RecordFails == record_fails("record")
Transcribe == transcribe_and_branch("transcribe", "speak_apology", "speak_thinking")
TranscribeFails == transcribe_fails("transcribe")
AfterApology == after_apology("speak_apology")
AfterThinking == after_thinking("speak_thinking", "respond")
Respond == respond_returns("respond")
RespondFails == respond_fails("respond")

\* a call of tts.speak begins; the speak of the reply is the Speaking phase
SpeakCall ==
    /\ pc \in SpeakSites
    /\ speak_enter
    /\ state' = (IF pc = "speak_reply" THEN "Speaking" ELSE state)
    /\ log' = (IF pc = "speak_reply" THEN Append(log, "speak") ELSE log)
    /\ onset_playing' = FALSE
    /\ UNCHANGED <<pc, was_interrupted, duration, utterance, reply, exc, interruptions>>
    /\ UNCHANGED <<cfgVars, wakVars, recVars, tckVars, monVars, raised, hrnVars>>

\* an exception out of speak("Thinking") or of the apology leaves run_loop
SpeakRaisedOutsideTry ==
    /\ pc \in SpeakSites \ {"speak_reply"}
    /\ ppc = "raised"
    /\ ppc' = "idle"
    /\ pc' = "raised"
    /\ UNCHANGED <<state, was_interrupted, duration, utterance, reply, exc, interruptions, log>>
    /\ UNCHANGED <<is_speaking, stop_playback, device, elapsed, total, outcome>>
    /\ UNCHANGED <<cfgVars, wakVars, recVars, tckVars, monVars, sigVars, hrnVars>>

\* head of the interruption loop: speech_monitor.start_monitoring(), then
\* was_interrupted = False and the call of tts.speak(reply, ...)
StartMonitoring ==
    /\ pc = "start_mon"
    /\ start_monitoring
    /\ log' = <<"start">>
    /\ was_interrupted' = FALSE
    /\ pc' = "speak_reply"
    /\ ppc' = "call"
    /\ UNCHANGED <<state, duration, utterance, reply, exc, interruptions>>
    /\ UNCHANGED <<is_speaking, stop_playback, device, elapsed, total, outcome>>
    /\ UNCHANGED <<cfgVars, wakVars, recVars, tckVars, sigVars, hrnVars>>

\* start_monitoring() raises (the input stream cannot be opened)
StartMonitoringFails ==
    /\ pc = "start_mon"
    /\ start_monitoring_fails
    /\ Propagate("monitor")
    /\ UNCHANGED <<state, was_interrupted, duration, utterance, reply, interruptions, log>>
    /\ UNCHANGED <<cfgVars, wakVars, recVars, tckVars, plyVars, sigVars, hrnVars>>

\* except KeyboardInterrupt: speech_monitor.stop_monitoring(), up to the join
ExceptKeyboardInterrupt ==
    /\ pc = "speak_reply"
    /\ ppc = "raised"
    /\ exc = "kbd"
    /\ stop_monitoring_halt
    /\ log' = log \o <<"exc", "stop">>
    /\ pc' = "exc_join"
    /\ ppc' = "idle"
    /\ UNCHANGED <<state, was_interrupted, duration, utterance, reply, exc, interruptions>>
    /\ UNCHANGED <<is_speaking, stop_playback, device, elapsed, total, outcome>>
    /\ UNCHANGED <<cfgVars, wakVars, recVars, tckVars, sigVars, hrnVars>>

\* except KeyboardInterrupt: the join of stop_monitoring(), then raise
ExceptJoin ==
    /\ pc = "exc_join"
    /\ stop_monitoring_join
    /\ pc' = "fin_check"
    /\ UNCHANGED <<state, was_interrupted, duration, utterance, reply, exc, interruptions, log>>
    /\ UNCHANGED <<cfgVars, wakVars, recVars, tckVars, monVars, plyVars, sigVars, hrnVars>>

\* finally: was_interrupted = speech_monitor.check_interrupt()
FinallyCheck ==
    /\ \/ /\ pc = "speak_reply"
          /\ ppc = "ret"
          /\ log' = log \o <<"ret", "check">>
       \/ /\ pc = "speak_reply"
          /\ ppc = "raised"
          /\ exc # "kbd"
          /\ log' = log \o <<"exc", "check">>
       \/ /\ pc = "fin_check"
          /\ log' = Append(log, "check")
    /\ was_interrupted' = check_interrupt
    /\ pc' = "fin_stop"
    /\ ppc' = "idle"
    /\ UNCHANGED <<state, duration, utterance, reply, exc, interruptions>>
    /\ UNCHANGED <<is_speaking, stop_playback, device, elapsed, total, outcome>>
    /\ UNCHANGED <<cfgVars, wakVars, recVars, tckVars, monVars, sigVars, hrnVars>>

\* finally: speech_monitor.stop_monitoring(), up to the join
FinallyStop ==
    /\ pc = "fin_stop"
    /\ stop_monitoring_halt
    /\ log' = Append(log, "stop")
    /\ pc' = "fin_join"
    /\ UNCHANGED <<state, was_interrupted, duration, utterance, reply, exc, interruptions>>
    /\ UNCHANGED <<cfgVars, wakVars, recVars, tckVars, plyVars, sigVars, hrnVars>>

\* finally: the join of stop_monitoring(); a pending exception goes on
FinallyJoin ==
    /\ pc = "fin_join"
    /\ stop_monitoring_join
    /\ pc' = (IF exc = "none" THEN "decide" ELSE "raised")
    /\ UNCHANGED <<state, was_interrupted, duration, utterance, reply, exc, interruptions, log>>
    /\ UNCHANGED <<cfgVars, wakVars, recVars, tckVars, monVars, plyVars, sigVars, hrnVars>>

\* a plausible bug: the interrupted branch forgets speech_monitor.reset()
EnterFollowUp_no_reset ==
    /\ pc = "decide"
    /\ was_interrupted
    /\ state' = "FollowUp"
    /\ pc' = "followup"
    /\ interruptions' = (IF interruptions < MaxInterrupts THEN interruptions + 1
                         ELSE interruptions)
    /\ UNCHANGED <<was_interrupted, duration, utterance, reply, exc, log>>
    /\ UNCHANGED <<cfgVars, wakVars, recVars, tckVars, monVars, plyVars, sigVars, hrnVars>>

\* a plausible bug: the follow-up branch is taken whatever was read
EnterFollowUp_unguarded ==
    /\ pc = "decide"
    /\ reset
    /\ raised' = FALSE
    /\ log' = Append(log, "reset")
    /\ state' = "FollowUp"
    /\ pc' = "followup"
    /\ interruptions' = (IF interruptions < MaxInterrupts THEN interruptions + 1
                         ELSE interruptions)
    /\ UNCHANGED <<was_interrupted, duration, utterance, reply, exc>>
    /\ UNCHANGED <<cfgVars, wakVars, recVars, tckVars, plyVars, onset_playing, hrnVars>>

\* a plausible bug: the turn is ended whatever was read
FinishTurn_unguarded ==
    /\ pc = "decide"
    /\ reset
    /\ raised' = FALSE
    /\ log' = Append(log, "reset")
    /\ TurnEnds
    /\ UNCHANGED <<was_interrupted, duration, utterance, reply, exc, interruptions>>
    /\ UNCHANGED <<cfgVars, wakVars, recVars, tckVars, plyVars, onset_playing, hrnVars>>

\* not interrupted: reset(), break; the turn is over
FinishTurn ==
    /\ pc = "decide"
    /\ ~was_interrupted
    /\ reset
    /\ raised' = FALSE
    /\ log' = Append(log, "reset")
    /\ TurnEnds
    /\ UNCHANGED <<was_interrupted, duration, utterance, reply, exc, interruptions>>
    /\ UNCHANGED <<cfgVars, wakVars, recVars, tckVars, plyVars, onset_playing, hrnVars>>

\* interrupted: reset(), then the follow-up branch
EnterFollowUp ==
    /\ pc = "decide"
    /\ was_interrupted
    /\ reset
    /\ raised' = FALSE
    /\ log' = Append(log, "reset")
    /\ state' = "FollowUp"
    /\ pc' = "followup"
    /\ interruptions' = (IF interruptions < MaxInterrupts THEN interruptions + 1
                         ELSE interruptions)
    /\ UNCHANGED <<was_interrupted, duration, utterance, reply, exc>>
    /\ UNCHANGED <<cfgVars, wakVars, recVars, tckVars, plyVars, onset_playing, hrnVars>>

\* the follow-up: pause, chime, countdown, then the recording begins
FollowUpBegins ==
    /\ pc = "followup"
    /\ pc' = "fu_record"
    /\ state' = "Recording"
    /\ log' = <<>>
    /\ ForgetLocals
    /\ UNCHANGED <<exc, interruptions>>
    /\ UNCHANGED <<ppc, is_speaking, stop_playback, device, elapsed, total>>
    /\ UNCHANGED <<cfgVars, wakVars, recVars, tckVars, monVars, sigVars, hrnVars>>

\* a plausible bug: an empty follow-up transcript records again
FollowUpAfterApology_stays ==
    /\ pc = "fu_speak_apology"
    /\ ppc = "ret"
    /\ ppc' = "idle"
    /\ pc' = "followup"
    /\ state' = "FollowUp"
    /\ UNCHANGED <<was_interrupted, duration, utterance, reply, exc, interruptions, log>>
    /\ UNCHANGED <<is_speaking, stop_playback, device, elapsed, total, outcome>>
    /\ UNCHANGED <<cfgVars, wakVars, recVars, tckVars, monVars, sigVars, hrnVars>>

\* a plausible bug: the follow-up recording is transcribed without the gate
FollowUpRecord_ungated ==
    /\ pc = "fu_record"
    /\ \E u \in Utterances, readable \in BOOLEAN :
        /\ utterance' = u
        /\ duration' = (IF readable THEN u.len ELSE 0)
    /\ pc' = "fu_transcribe"
    /\ state' = "Transcribing"
    /\ UNCHANGED <<was_interrupted, reply, exc, interruptions, log>>
    /\ UNCHANGED <<cfgVars, wakVars, recVars, tckVars, monVars, plyVars, sigVars, hrnVars>>

\* the follow-up turn
FollowUpRecord == record_and_gate("fu_record", "fu_transcribe")
FollowUpRecordFails == record_fails("fu_record")
FollowUpTranscribe ==
    transcribe_and_branch("fu_transcribe", "fu_speak_apology", "fu_speak_thinking")
FollowUpTranscribeFails == transcribe_fails("fu_transcribe")
FollowUpAfterApology == after_apology("fu_speak_apology")
FollowUpAfterThinking == after_thinking("fu_speak_thinking", "fu_respond")
\* a plausible bug: the follow-up's reply is not assigned, the loop goes back
\* to speak with what `reply` held
FollowUpRespond_keeps_reply ==
    /\ pc = "fu_respond"
    /\ pc' = "start_mon"
    /\ UNCHANGED <<state, was_interrupted, duration, utterance, reply, exc,
                   interruptions, log>>
    /\ UNCHANGED <<cfgVars, wakVars, recVars, tckVars, monVars, plyVars, sigVars, hrnVars>>

FollowUpRespond == respond_returns("fu_respond")
FollowUpRespondFails == respond_fails("fu_respond")

\* ---------------------------------------------------------------- Spec
Init ==
    /\ use_wake_word \in BOOLEAN
    /\ tts_kind \in {"coqui", "pyttsx3"}
    /\ pc = "loop_top"
    /\ state = "Idle"
    /\ was_interrupted = FALSE
    /\ duration = 0
    /\ utterance = NoUtterance
    /\ reply = "none"
    /\ exc = "none"
    /\ interruptions = 0
    /\ log = <<>>
    /\ has_event = FALSE
    /\ speech_detected = FALSE
    /\ is_monitoring = FALSE
    /\ stream = "none"
    /\ q = <<>>
    /\ thr = "none"
    /\ csf = 0
    /\ seen = <<>>
    /\ stale = 0
    /\ ppc = "idle"
    /\ is_speaking = FALSE
    /\ stop_playback = FALSE
    /\ device = "idle"
    /\ elapsed = 0
    /\ total = 0
    /\ outcome = "none"
    /\ onset_playing = FALSE
    /\ raised = FALSE
    /\ hpc = "idle"
    /\ last_check = "none"
    /\ set_at_stop = FALSE
    /\ resets = 0
    /\ rpc = "idle"
    /\ frames = <<>>
    /\ read = 0
    /\ rec_elapsed = 0
    /\ last_speech_time = 0
    /\ rec_speech_detected = FALSE
    /\ stalls = 0
    /\ stop_rule = "none"
    /\ written = FALSE
    /\ saved = <<>>
    /\ cbs = NoCallbacks
    /\ audio = <<>>
    /\ calls = <<>>
    /\ writes = 0
    /\ sent = <<>>
    /\ ipc = "idle"
    /\ wk_backend = "whisper"
    /\ wpc = "unbuilt"
    /\ cooldown_frames = 0
    /\ score_len = 0
    /\ wq = 0
    /\ wk_last = "none"

Next ==
    \/ LoopTop
    \/ WakeListen
    \/ TriggerEnter
    \/ TriggerKeyboardInterrupt
    \/ Record
    \/ RecordFails
    \/ Transcribe
    \/ TranscribeFails
    \/ AfterApology
    \/ AfterThinking
    \/ Respond
    \/ RespondFails
    \/ SpeakCall
    \/ SpeakRaisedOutsideTry
    \/ StartMonitoring
    \/ StartMonitoringFails
    \/ ExceptKeyboardInterrupt
    \/ ExceptJoin
    \/ FinallyCheck
    \/ FinallyStop
    \/ FinallyJoin
    \/ FinishTurn
    \/ EnterFollowUp
    \/ FollowUpBegins
    \/ FollowUpRecord
    \/ FollowUpRecordFails
    \/ FollowUpTranscribe
    \/ FollowUpTranscribeFails
    \/ FollowUpAfterApology
    \/ FollowUpAfterThinking
    \/ FollowUpRespond
    \/ FollowUpRespondFails
    \/ SynthOk
    \/ SynthFails
    \/ FallbackSpeak
    \/ PlayStart
    \/ PlayStartFails
    \/ PollLoop
    \/ AfterLoop
    \/ Drain
    \/ PlayHandler
    \/ PyttsxDone
    \/ PyttsxRaises
    \/ SpeakKeyboardInterrupt
    \/ DeviceFinish
    \/ DeviceFail
    \/ MonitorLoopHead
    \/ MonitorLoopGet
    \/ AudioCallback

Spec == Init /\ [][Next]_vars


\* -------------------------------------------------------------- SpecLive
\* Spec with the scheduling the program runs under: the main thread, the
\* detection thread and the output device each take their next step when
\* they have one (every call returns, with a value or a failure).  The user
\* (Enter, Ctrl-C) and the microphone are under no obligation.

ControllerStep ==
    \/ LoopTop
    \/ WakeListen
    \/ Record
    \/ RecordFails
    \/ Transcribe
    \/ TranscribeFails
    \/ AfterApology
    \/ AfterThinking
    \/ Respond
    \/ RespondFails
    \/ SpeakCall
    \/ SpeakRaisedOutsideTry
    \/ StartMonitoring
    \/ StartMonitoringFails
    \/ ExceptKeyboardInterrupt
    \/ ExceptJoin
    \/ FinallyCheck
    \/ FinallyStop
    \/ FinallyJoin
    \/ FinishTurn
    \/ EnterFollowUp
    \/ FollowUpBegins
    \/ FollowUpRecord
    \/ FollowUpRecordFails
    \/ FollowUpTranscribe
    \/ FollowUpTranscribeFails
    \/ FollowUpAfterApology
    \/ FollowUpAfterThinking
    \/ FollowUpRespond
    \/ FollowUpRespondFails
    \/ SynthOk
    \/ SynthFails
    \/ FallbackSpeak
    \/ PlayStart
    \/ PlayStartFails
    \/ PollLoop
    \/ AfterLoop
    \/ Drain
    \/ PlayHandler
    \/ PyttsxDone
    \/ PyttsxRaises

MonitorStep ==
    \/ MonitorLoopHead
    \/ MonitorLoopGet

DeviceStep ==
    \/ DeviceFinish
    \/ DeviceFail

SpecLive ==
    /\ Spec
    /\ WF_vars(ControllerStep)
    /\ WF_vars(MonitorStep)
    /\ WF_vars(DeviceStep)


\* -------------------------------------------------------------- SpecMon
\* A SpeechMonitor in the hands of an arbitrary sequential caller.  The caller
\* starts a session only when no detection thread is alive.

MonCallStart ==
    /\ hpc = "idle"
    /\ thr \in {"none", "done"}
    /\ start_monitoring
    /\ last_check' = "none"
    /\ set_at_stop' = FALSE
    /\ resets' = 0
    /\ UNCHANGED <<hpc, cfgVars, wakVars, recVars, tckVars, ctlVars, plyVars, sigVars>>

MonCallStop ==
    /\ hpc = "idle"
    /\ stop_monitoring_halt
    /\ hpc' = "join"
    /\ last_check' = "none"
    /\ set_at_stop' = check_interrupt
    /\ resets' = 0
    /\ UNCHANGED <<cfgVars, wakVars, recVars, tckVars, ctlVars, plyVars, sigVars>>

MonCallJoin ==
    /\ hpc = "join"
    /\ stop_monitoring_join
    /\ hpc' = "idle"
    /\ UNCHANGED <<last_check, set_at_stop, resets, cfgVars, wakVars, recVars, tckVars, ctlVars, monVars, plyVars, sigVars>>

MonCallCheck ==
    /\ hpc = "idle"
    /\ last_check' = (IF check_interrupt THEN "true" ELSE "false")
    /\ resets' = 0
    /\ UNCHANGED <<hpc, set_at_stop, cfgVars, wakVars, recVars, tckVars, ctlVars, monVars, plyVars, sigVars>>

MonCallReset ==
    /\ hpc = "idle"
    /\ reset
    /\ raised' = FALSE
    /\ last_check' = "none"
    /\ set_at_stop' = FALSE
    /\ resets' = IF resets < 2 THEN resets + 1 ELSE 2
    /\ UNCHANGED <<hpc, onset_playing, cfgVars, wakVars, recVars, tckVars, ctlVars, plyVars>>

InitMon ==
    /\ Init
    /\ ~use_wake_word
    /\ tts_kind = "coqui"

NextMon ==
    \/ MonCallStart
    \/ MonCallStop
    \/ MonCallJoin
    \/ MonCallCheck
    \/ MonCallReset
    \/ MonitorLoopHead
    \/ MonitorLoopGet
    \/ AudioCallback

SpecMon == InitMon /\ [][NextMon]_vars

\* ================================================================== Recorder
\* Recorder.record_to_wav, one loop iteration per action.  Times are in ms
\* since `start`.  time.time() is read at the arrival of a frame; the three
\* readings of one iteration (lines 50, 54, 64) are taken as one instant.  A
\* frame is identified by its arrival number.  frames_with_speech is only
\* printed and is left out; it is positive exactly when speech_detected.

\* Recorder(samplerate=16000, frame_ms=30, max_seconds=15, silence_tail_ms=1200)
SampleRate == 16000
FrameMs == 30
SilenceTailMs == 1200
MaxMs == 15000
\* record_to_wav(min_seconds=0.5)
MinSecondsMs == 500
\* `elapsed > 5.0`
NoSpeechMs == 5000
\* self.frame_len = int(samplerate * frame_ms / 1000)
frame_len == (SampleRate * FrameMs) \div 1000
\* min_frames = int(self.samplerate * min_seconds / self.frame_len)
min_frames == (SampleRate * MinSecondsMs) \div (frame_len * 1000)

\* reads of one call that may take longer than a frame (the process or the
\* device stalls while the clock runs on)
MaxStalls == 1
\* how much longer: as long as each of the recorder's three timeouts
StallLengths == {SilenceTailMs, NoSpeechMs, MaxMs}

\* a plausible bug: only voiced frames are kept
appended_voiced_only(fr, id, is_voiced) ==
    IF is_voiced THEN Append(fr, id) ELSE fr

\* frames.append(f), whatever is_voiced
appended(fr, id, is_voiced) == Append(fr, id)

\* a plausible bug: the no-speech rule nested under the min_frames test
rule_no_speech_after_floor(n, el, last, det) ==
    n >= min_frames /\ ~det /\ el > NoSpeechMs

\* a plausible bug: the no-speech rule without its timeout
rule_no_speech_no_wait(n, el, last, det) == ~det

\* `if not speech_detected and elapsed > 5.0`
rule_no_speech(n, el, last, det) == ~det /\ el > NoSpeechMs

\* a plausible bug: the silence compared with min_seconds
rule_silence_short(n, el, last, det) ==
    n >= min_frames /\ det /\ el - last >= MinSecondsMs

\* `if len(frames) >= min_frames and speech_detected` and
\* `if silence_duration >= (self.silence_tail_ms / 1000.0)`
rule_silence(n, el, last, det) ==
    n >= min_frames /\ det /\ el - last >= SilenceTailMs

\* `if elapsed > self.max_seconds`
rule_max(n, el, last, det) == el > MaxMs

\* a plausible bug: the max-duration test moved before the silence test
first_rule_max_first(n, el, last, det) ==
    IF rule_no_speech(n, el, last, det) THEN "no_speech"
    ELSE IF rule_max(n, el, last, det) THEN "max"
    ELSE IF rule_silence(n, el, last, det) THEN "silence"
    ELSE "none"

\* the three tests in the order of the loop body; the first that holds breaks
first_rule(n, el, last, det) ==
    IF rule_no_speech(n, el, last, det) THEN "no_speech"
    ELSE IF rule_silence(n, el, last, det) THEN "silence"
    ELSE IF rule_max(n, el, last, det) THEN "max"
    ELSE "none"

\* record_to_wav is called: its locals
record_begin ==
    /\ rpc \in {"idle", "done", "raised"}
    /\ rpc' = "loop"
    /\ frames' = <<>>
    /\ read' = 0
    /\ rec_elapsed' = 0
    /\ last_speech_time' = 0
    /\ rec_speech_detected' = FALSE
    /\ stalls' = 0
    /\ stop_rule' = "none"
    /\ written' = FALSE
    /\ saved' = <<>>

\* one iteration of `for f in self._frame_gen()`: the frame arrives FrameMs
\* (+ stall) after the one before, is classified, appended, and the stop
\* rules are tested
record_frame(is_voiced, stall) ==
    /\ rpc = "loop"
    /\ read' = read + 1
    /\ stalls' = IF stall > 0 THEN stalls + 1 ELSE stalls
    /\ frames' = appended(frames, read + 1, is_voiced)
    /\ rec_elapsed' = rec_elapsed + FrameMs + stall
    /\ last_speech_time' = IF is_voiced THEN rec_elapsed' ELSE last_speech_time
    /\ rec_speech_detected' = (rec_speech_detected \/ is_voiced)
    /\ stop_rule' = first_rule(Len(frames'), rec_elapsed', last_speech_time',
                               rec_speech_detected')
    /\ rpc' = IF stop_rule' = "none" THEN "loop" ELSE "write"
    /\ UNCHANGED <<written, saved>>

\* after the loop: the statistics (prints), then the wav file is written
record_write ==
    /\ rpc = "write"
    /\ saved' = frames
    /\ written' = TRUE
    /\ rpc' = "done"
    /\ UNCHANGED <<frames, read, rec_elapsed, last_speech_time,
                   rec_speech_detected, stalls, stop_rule>>

\* sd.InputStream or stream.read raises inside _frame_gen: the exception
\* leaves record_to_wav, its locals are gone and no file is written
record_raises ==
    /\ rpc = "loop"
    /\ rpc' = "raised"
    /\ frames' = <<>>
    /\ read' = 0
    /\ rec_elapsed' = 0
    /\ last_speech_time' = 0
    /\ rec_speech_detected' = FALSE
    /\ stalls' = 0
    /\ UNCHANGED <<stop_rule, written, saved>>

RecorderOnly(step) ==
    /\ step
    /\ UNCHANGED <<cfgVars, wakVars, tckVars, ctlVars, monVars, plyVars, sigVars, hrnVars>>

RecordBegin == RecorderOnly(record_begin)
RecordFrame ==
    \E is_voiced \in BOOLEAN :
    \E stall \in {0} \cup (IF stalls < MaxStalls THEN StallLengths ELSE {}) :
        RecorderOnly(record_frame(is_voiced, stall))
RecordWrite == RecorderOnly(record_write)
RecordRaises == RecorderOnly(record_raises)

InitRec ==
    /\ Init
    /\ ~use_wake_word
    /\ tts_kind = "coqui"

NextRec ==
    \/ RecordBegin
    \/ RecordFrame
    \/ RecordWrite
    \/ RecordRaises

SpecRec == InitRec /\ [][NextRec]_vars

\* ---------------------------------------------------------- SpecBlocking
\* The two blocking calls of the core, record_to_wav and
\* _play_with_interruption, in the hands of a sequential caller that makes
\* one call at a time, in any order, and passes no interrupt callback.

BlkRecordCall ==
    /\ ppc = "idle"
    /\ RecordBegin

BlkPlayCall ==
    /\ ppc = "idle"
    /\ rpc \in {"idle", "done", "raised"}
    /\ ppc' = "play"
    /\ outcome' = "pending"
    /\ rpc' = "idle"
    /\ frames' = <<>>
    /\ read' = 0
    /\ rec_elapsed' = 0
    /\ last_speech_time' = 0
    /\ rec_speech_detected' = FALSE
    /\ stalls' = 0
    /\ stop_rule' = "none"
    /\ written' = FALSE
    /\ saved' = <<>>
    /\ UNCHANGED <<is_speaking, stop_playback, device, elapsed, total>>
    /\ UNCHANGED <<cfgVars, wakVars, tckVars, ctlVars, monVars, sigVars, hrnVars>>

BlkPlayReturn ==
    /\ ppc = "ret"
    /\ ppc' = "idle"
    /\ device' = "idle"
    /\ UNCHANGED <<is_speaking, stop_playback, elapsed, total, outcome>>
    /\ UNCHANGED <<cfgVars, wakVars, recVars, tckVars, ctlVars, monVars, sigVars, hrnVars>>

InitBlk ==
    /\ Init
    /\ ~use_wake_word
    /\ tts_kind = "coqui"

NextBlk ==
    \/ BlkRecordCall
    \/ RecordFrame
    \/ RecordWrite
    \/ RecordRaises
    \/ BlkPlayCall
    \/ PlayStart
    \/ PlayStartFails
    \/ PollLoop
    \/ AfterLoop
    \/ Drain
    \/ PlayHandler
    \/ DeviceFinish
    \/ DeviceFail
    \/ BlkPlayReturn

SpecBlocking == InitBlk /\ [][NextBlk]_vars

\* ------------------------------------------------------------- SpecPlay
\* _play_with_interruption one statement group at a time: the while test,
\* then the local stop flag, the interrupt poll, the level callback, the
\* UI-tick hook, the device-finished test and the sleep of one tick.  The
\* caller makes one call at a time with any buffer and any subset of the
\* three callbacks; interrupt() may be called from another thread at any
\* moment.  audio_data is kept as the level of each 50 ms chunk: 0 for a
\* silent chunk, NoiseFloor for a nonzero RMS at or under 0.0001, above it
\* for a louder one.

NoiseFloor == 1
Levels == 0 .. NoiseFloor + 1
Buffers == UNION {[1 .. n -> Levels] : n \in 1 .. MaxTicks}
Callbacks == [poll : BOOLEAN, level : BOOLEAN, ui : BOOLEAN]

\* the RMS of audio_data[current_sample:end_sample] for the estimate el, 0
\* standing also for "no slice" (current_sample at or past the end).  In the
\* tick that rounding adds after the last chunk, int(elapsed * samplerate)
\* is the index of the last sample, or the length itself
slice_levels(el) ==
    IF el < Len(audio) THEN {audio[el + 1]}
    ELSE IF audio = <<>> \/ audio[Len(audio)] = 0 THEN {0}
    ELSE Levels

\* entry of _play_with_interruption: self.is_speaking = True
ply_enter ==
    /\ ppc = "play"
    /\ ppc' = "p_clear"
    /\ is_speaking' = TRUE
    /\ UNCHANGED <<stop_playback, device, elapsed, total, outcome>>
    /\ UNCHANGED <<cbs, audio, calls, writes, sent, ipc>>

\* self.stop_playback.clear()
ply_clear ==
    /\ ppc = "p_clear"
    /\ ppc' = "p_play"
    /\ stop_playback' = FALSE
    /\ UNCHANGED <<is_speaking, device, elapsed, total, outcome>>
    /\ UNCHANGED <<cbs, audio, calls, writes, sent, ipc>>

\* sd.play(audio_data, samplerate) of the whole buffer, then the locals of
\* the loop; when sd.play raises (~ok) control goes to `except Exception`
ply_play(ok) ==
    /\ ppc = "p_play"
    /\ writes' = writes + 1
    /\ IF ok
       THEN /\ ppc' = "loop"
            /\ device' = "playing"
            /\ elapsed' = 0
            /\ total' = Len(audio)
       ELSE /\ ppc' = "handler"
            /\ UNCHANGED <<device, elapsed, total>>
    /\ UNCHANGED <<is_speaking, stop_playback, outcome>>
    /\ UNCHANGED <<cbs, audio, calls, sent, ipc>>

\* `while elapsed < total_duration`, the first statement of a tick
tick_while ==
    /\ ppc = "loop"
    /\ \E again \in while_elapsed_below_total :
          ppc' = IF again THEN "t_stop" ELSE "after"
    /\ calls' = <<>>
    /\ UNCHANGED <<is_speaking, stop_playback, device, elapsed, total, outcome>>
    /\ UNCHANGED <<cbs, audio, writes, sent, ipc>>

\* a plausible bug: the stop flag is seen but the tick goes on
tick_stop_check_no_break ==
    /\ ppc = "t_stop"
    /\ calls' = Append(calls, "stop_check")
    /\ ppc' = "t_poll"
    /\ device' = IF stop_playback THEN "stopped" ELSE device
    /\ UNCHANGED <<is_speaking, stop_playback, elapsed, total, outcome>>
    /\ UNCHANGED <<cbs, audio, writes, sent, ipc>>

\* if self.stop_playback.is_set(): sd.stop(); break
tick_stop_check ==
    /\ ppc = "t_stop"
    /\ calls' = Append(calls, "stop_check")
    /\ IF stop_playback
       THEN ppc' = "after" /\ device' = "stopped"
       ELSE ppc' = "t_poll" /\ UNCHANGED device
    /\ UNCHANGED <<is_speaking, stop_playback, elapsed, total, outcome>>
    /\ UNCHANGED <<cbs, audio, writes, sent, ipc>>

\* if interrupt_check_callback and interrupt_check_callback(): set the flag,
\* sd.stop(), break; an exception of the callback goes to `except Exception`
tick_poll(ans) ==
    /\ ppc = "t_poll"
    /\ IF ~cbs.poll
       THEN ppc' = "t_level" /\ UNCHANGED <<calls, stop_playback, device>>
       ELSE /\ calls' = Append(calls, "poll")
            /\ IF ans = "true"
               THEN ppc' = "after" /\ stop_playback' = TRUE /\ device' = "stopped"
               ELSE /\ ppc' = IF ans = "raise" THEN "handler" ELSE "t_level"
                    /\ UNCHANGED <<stop_playback, device>>
    /\ UNCHANGED <<is_speaking, elapsed, total, outcome>>
    /\ UNCHANGED <<cbs, audio, writes, sent, ipc>>

\* a plausible bug: the level callback called outside its try block, so that
\* what it raises reaches the handler of the whole playback
tick_level_propagates(lv, raises) ==
    /\ ppc = "t_level"
    /\ IF cbs.level /\ lv > NoiseFloor
       THEN /\ calls' = Append(calls, IF raises THEN "level_raised" ELSE "level")
            /\ sent' = Append(sent, lv)
            /\ ppc' = IF raises THEN "handler" ELSE "t_ui"
       ELSE ppc' = "t_ui" /\ UNCHANGED <<calls, sent>>
    /\ UNCHANGED <<is_speaking, stop_playback, device, elapsed, total, outcome>>
    /\ UNCHANGED <<cbs, audio, writes, ipc>>

\* a plausible bug: the level passed on whenever a slice was read, the noise
\* floor not applied
tick_level_no_floor(lv, raises) ==
    /\ ppc = "t_level"
    /\ ppc' = "t_ui"
    /\ IF cbs.level /\ elapsed < Len(audio)
       THEN /\ calls' = Append(calls, IF raises THEN "level_raised" ELSE "level")
            /\ sent' = Append(sent, lv)
       ELSE UNCHANGED <<calls, sent>>
    /\ UNCHANGED <<is_speaking, stop_playback, device, elapsed, total, outcome>>
    /\ UNCHANGED <<cbs, audio, writes, ipc>>

\* if ui_callback: the RMS of the slice at the estimate, passed on when it is
\* above the noise floor; `except Exception` swallows what the callback raises
tick_level(lv, raises) ==
    /\ ppc = "t_level"
    /\ ppc' = "t_ui"
    /\ IF cbs.level /\ lv > NoiseFloor
       THEN /\ calls' = Append(calls, IF raises THEN "level_raised" ELSE "level")
            /\ sent' = Append(sent, lv)
       ELSE UNCHANGED <<calls, sent>>
    /\ UNCHANGED <<is_speaking, stop_playback, device, elapsed, total, outcome>>
    /\ UNCHANGED <<cbs, audio, writes, ipc>>

\* if ui_process_events: the hook, inside try / bare except
tick_ui(raises) ==
    /\ ppc = "t_ui"
    /\ ppc' = "t_dev"
    /\ calls' = IF cbs.ui THEN Append(calls, IF raises THEN "ui_raised" ELSE "ui")
                ELSE calls
    /\ UNCHANGED <<is_speaking, stop_playback, device, elapsed, total, outcome>>
    /\ UNCHANGED <<cbs, audio, writes, sent, ipc>>

\* sd.get_stream(): break when there is no active stream; when the query
\* itself raises (~ok) the bare except passes and the tick goes on
tick_dev(ok) ==
    /\ ppc = "t_dev"
    /\ calls' = Append(calls, "device")
    /\ ppc' = IF ok /\ device # "playing" THEN "after" ELSE "t_sleep"
    /\ UNCHANGED <<is_speaking, stop_playback, device, elapsed, total, outcome>>
    /\ UNCHANGED <<cbs, audio, writes, sent, ipc>>

\* a plausible bug: the loop feeds the device chunk by chunk, one write at
\* the end of each tick
tick_sleep_writes_chunk ==
    /\ ppc = "t_sleep"
    /\ ppc' = "loop"
    /\ elapsed' = elapsed + 1
    /\ writes' = writes + 1
    /\ UNCHANGED <<is_speaking, stop_playback, device, total, outcome>>
    /\ UNCHANGED <<cbs, audio, calls, sent, ipc>>

\* time.sleep(check_interval); elapsed += check_interval
tick_sleep ==
    /\ ppc = "t_sleep"
    /\ ppc' = "loop"
    /\ elapsed' = elapsed + 1
    /\ UNCHANGED <<is_speaking, stop_playback, device, total, outcome>>
    /\ UNCHANGED <<cbs, audio, calls, writes, sent, ipc>>

\* interrupt(): `if self.is_speaking`
interrupt_test ==
    /\ ipc = "idle"
    /\ ipc' = IF is_speaking THEN "armed" ELSE "idle"
    /\ UNCHANGED <<ppc, is_speaking, stop_playback, device, elapsed, total, outcome>>
    /\ UNCHANGED <<cbs, audio, calls, writes, sent>>

\* interrupt(): self.stop_playback.set()
interrupt_set ==
    /\ ipc = "armed"
    /\ ipc' = "set"
    /\ stop_playback' = TRUE
    /\ UNCHANGED <<ppc, is_speaking, device, elapsed, total, outcome>>
    /\ UNCHANGED <<cbs, audio, calls, writes, sent>>

\* interrupt(): sd.stop()
interrupt_stop ==
    /\ ipc = "set"
    /\ ipc' = "idle"
    /\ device' = "stopped"
    /\ UNCHANGED <<ppc, is_speaking, stop_playback, elapsed, total, outcome>>
    /\ UNCHANGED <<cbs, audio, calls, writes, sent>>

PlyRest == UNCHANGED <<cfgVars, wakVars, recVars, ctlVars, monVars, sigVars, hrnVars>>

PlyCall ==
    /\ ppc = "idle"
    /\ ppc' = "play"
    /\ outcome' = "pending"
    /\ cbs' \in Callbacks
    /\ audio' \in Buffers
    /\ calls' = <<>>
    /\ writes' = 0
    /\ sent' = <<>>
    /\ UNCHANGED <<is_speaking, stop_playback, device, elapsed, total, ipc>>
    /\ PlyRest

PlyEnter == ply_enter /\ PlyRest
PlyClear == ply_clear /\ PlyRest
PlyPlay == \E ok \in BOOLEAN : ply_play(ok) /\ PlyRest

TickWhile == tick_while /\ PlyRest
TickStopCheck == tick_stop_check /\ PlyRest
TickPoll == \E ans \in {"false", "true", "raise"} : tick_poll(ans) /\ PlyRest
TickLevel ==
    \E lv \in slice_levels(elapsed) : \E raises \in BOOLEAN :
        tick_level(lv, raises) /\ PlyRest
TickUi == \E raises \in BOOLEAN : tick_ui(raises) /\ PlyRest
TickDev == \E ok \in BOOLEAN : tick_dev(ok) /\ PlyRest
TickSleep == tick_sleep /\ PlyRest
InterruptTest == interrupt_test /\ PlyRest
InterruptSet == interrupt_set /\ PlyRest
InterruptStop == interrupt_stop /\ PlyRest

PlyReturn ==
    /\ ppc = "ret"
    /\ ppc' = "idle"
    /\ UNCHANGED <<is_speaking, stop_playback, device, elapsed, total, outcome>>
    /\ UNCHANGED tckVars
    /\ PlyRest

InitPlay ==
    /\ Init
    /\ ~use_wake_word
    /\ tts_kind = "coqui"

NextPlay ==
    \/ PlyCall
    \/ PlyEnter
    \/ PlyClear
    \/ PlyPlay
    \/ TickWhile
    \/ TickStopCheck
    \/ TickPoll
    \/ TickLevel
    \/ TickUi
    \/ TickDev
    \/ TickSleep
    \/ AfterLoop
    \/ Drain
    \/ PlayHandler
    \/ DeviceFinish
    \/ DeviceFail
    \/ InterruptTest
    \/ InterruptSet
    \/ InterruptStop
    \/ PlyReturn

SpecPlay == InitPlay /\ [][NextPlay]_vars

\* -------------------------------------------------------------- SpecWake
\* listen() of the two wake-word backends, called again and again by a
\* caller that passes no argument.

\* self.cooldown_duration = 50
cooldown_duration == 50
\* `if len(self.score_history) > 20: pop(0)`
ScoreHistoryMax == 20
\* `if len(self.score_history) >= 10`
ScoreHistoryMin == 10

\* what Whisper heard in a chunk, by the three tests of _check_wake_phrase:
\* a wake phrase is a substring of the cleaned text, the words of a wake
\* phrase are found in order by the fuzzy word match, the text starts with
\* "hey" / "okay" / "ok" and an assistant word
Texts ==
    [empty : {TRUE}, exact : {FALSE}, inorder : {FALSE}, partial : {FALSE}]
        \cup [empty : {FALSE}, exact : BOOLEAN, inorder : BOOLEAN,
               partial : BOOLEAN]

\* _check_wake_phrase(text)
check_wake_phrase(t) ==
    IF t.empty THEN FALSE
    ELSE IF t.exact THEN TRUE
    ELSE IF t.inorder THEN TRUE
    ELSE t.partial

\* nothing else of the program runs while run_loop is inside listen()
WakRest ==
    UNCHANGED <<cfgVars, ctlVars, monVars, plyVars, sigVars, hrnVars, recVars,
                tckVars>>

\* the detector is built: main.py imports one of the two backends
wk_build(b) ==
    /\ wpc = "unbuilt"
    /\ wk_backend' = b
    /\ wpc' = "idle"
    /\ cooldown_frames' = 0
    /\ score_len' = 0
    /\ wq' = 0
    /\ wk_last' = "none"
    /\ WakRest

\* listen() is called; the fields of the detector are those the last call
\* left
listen_call ==
    /\ wpc \in {"idle", "returned", "raised"}
    /\ wpc' = IF wk_backend = "open" THEN "o_open" ELSE "w_record"
    /\ wk_last' = "none"
    /\ UNCHANGED <<wk_backend, cooldown_frames, score_len, wq>>
    /\ WakRest

\* wakeword_open: `with sd.InputStream(...)`; when it cannot be opened the
\* exception leaves listen()
o_open(ok) ==
    /\ wpc = "o_open"
    /\ IF ok
       THEN wpc' = "o_get" /\ UNCHANGED wk_last
       ELSE wpc' = "raised" /\ wk_last' = "stream_error"
    /\ UNCHANGED <<wk_backend, cooldown_frames, score_len, wq>>
    /\ WakRest

\* wakeword_open._callback, on the stream's thread: self.q.put(indata.copy())
o_callback ==
    /\ wpc \in {"o_get", "o_predict"}
    /\ wq < MaxQueue
    /\ wq' = wq + 1
    /\ UNCHANGED <<wk_backend, wpc, cooldown_frames, score_len, wk_last>>
    /\ WakRest

\* block = self.q.get(timeout=1.0): a block, skipped while the cooldown
\* runs; with no block for a second queue.Empty, whose handler breaks the
\* loop, the `with` block ends and listen() returns
o_get ==
    /\ wpc = "o_get"
    /\ IF wq > 0
       THEN /\ wq' = wq - 1
            /\ IF cooldown_frames > 0
               THEN /\ cooldown_frames' = cooldown_frames - 1
                    /\ wpc' = "o_get"
                    /\ wk_last' = "cooldown"
               ELSE /\ wpc' = "o_predict"
                    /\ UNCHANGED <<cooldown_frames, wk_last>>
       ELSE /\ wpc' = "returned"
            /\ wk_last' = "timeout"
            /\ UNCHANGED <<wq, cooldown_frames>>
    /\ UNCHANGED <<wk_backend, score_len>>
    /\ WakRest

\* self.model.predict(audio) and the trigger test: an exception is printed
\* and the loop goes on; the score joins the history; with at least ten
\* scores, enough level (loud) and one of the three score conditions (hit)
\* the cooldown is set, the history cleared and listen() returns
o_predict(fails, loud, hit) ==
    /\ wpc = "o_predict"
    /\ IF fails
       THEN /\ wpc' = "o_get"
            /\ wk_last' = "predict_error"
            /\ UNCHANGED <<cooldown_frames, score_len>>
       ELSE IF (IF score_len < ScoreHistoryMax THEN score_len + 1
                ELSE ScoreHistoryMax) >= ScoreHistoryMin /\ loud /\ hit
       THEN /\ wpc' = "returned"
            /\ wk_last' = "detected"
            /\ cooldown_frames' = cooldown_duration
            /\ score_len' = 0
       ELSE /\ wpc' = "o_get"
            /\ wk_last' = "no_match"
            /\ score_len' = IF score_len < ScoreHistoryMax THEN score_len + 1
                            ELSE ScoreHistoryMax
            /\ UNCHANGED cooldown_frames
    /\ UNCHANGED <<wk_backend, wq>>
    /\ WakRest

\* wakeword_whisper: audio_chunk = self._record_chunk() and the temp file;
\* an exception goes to the outer handler: sleep, next iteration
w_record(ok) ==
    /\ wpc = "w_record"
    /\ IF ok
       THEN wpc' = "w_transcribe" /\ UNCHANGED wk_last
       ELSE wpc' = "w_record" /\ wk_last' = "record_error"
    /\ UNCHANGED <<wk_backend, cooldown_frames, score_len, wq>>
    /\ WakRest

\* text = self.stt.transcribe(temp_wav): an exception is printed and the
\* loop goes on; `if text and self._check_wake_phrase(text): return`
w_transcribe(fails, t) ==
    /\ wpc = "w_transcribe"
    /\ IF fails
       THEN wpc' = "w_record" /\ wk_last' = "transcribe_error"
       ELSE IF ~t.empty /\ check_wake_phrase(t)
       THEN wpc' = "returned" /\ wk_last' = "detected"
       ELSE /\ wpc' = "w_record"
            /\ wk_last' = IF t.empty THEN "no_text" ELSE "no_match"
    /\ UNCHANGED <<wk_backend, cooldown_frames, score_len, wq>>
    /\ WakRest

\* Ctrl-C inside listen(): wakeword_whisper re-raises it, wakeword_open has
\* no handler for it
listen_interrupted ==
    /\ wpc \in {"o_get", "o_predict", "w_record", "w_transcribe"}
    /\ wpc' = "raised"
    /\ wk_last' = "interrupt"
    /\ UNCHANGED <<wk_backend, cooldown_frames, score_len, wq>>
    /\ WakRest

InitWake ==
    /\ Init
    /\ use_wake_word
    /\ tts_kind = "coqui"

NextWake ==
    \/ \E b \in {"whisper", "open"} : wk_build(b)
    \/ listen_call
    \/ \E ok \in BOOLEAN : o_open(ok)
    \/ o_callback
    \/ o_get
    \/ \E fails \in BOOLEAN, loud \in BOOLEAN, hit \in BOOLEAN :
          o_predict(fails, loud, hit)
    \/ \E ok \in BOOLEAN : w_record(ok)
    \/ \E fails \in BOOLEAN, t \in Texts : w_transcribe(fails, t)
    \/ listen_interrupted

SpecWake == InitWake /\ [][NextWake]_vars

\* ================================================================== claims

Range(f) == {f[i] : i \in DOMAIN f}

\* index of the first e in l, Len(l) + 1 when there is none
First(l, e) ==
    IF e \in Range(l)
    THEN CHOOSE i \in DOMAIN l : l[i] = e /\ \A j \in 1..(i - 1) : l[j] # e
    ELSE Len(l) + 1

\* the transition table of TurnState
Table == { <<"Idle", "AwaitingTrigger">>,
           <<"AwaitingTrigger", "Recording">>,
           <<"Recording", "Idle">>,
           <<"Recording", "Transcribing">>,
           <<"Transcribing", "AwaitingTrigger">>,
           <<"Transcribing", "Generating">>,
           <<"Generating", "Speaking">>,
           <<"Speaking", "AwaitingTrigger">>,
           <<"Speaking", "FollowUp">>,
           <<"FollowUp", "Recording">> }

\* C1: every change of TurnState that run_loop makes is one of the ten
\* transitions of the table, and from Idle the controller's next step is
\* Idle -> AwaitingTrigger.
C1_OnlyTableTransitions ==
    [][ /\ (state' # state => <<state, state'>> \in Table)
        /\ (state = "Idle" /\ pc' # pc => state' = "AwaitingTrigger") ]_vars

\* C1 witness: a follow-up recording after the last counted interruption was
\* too short, the controller is in Idle on its way to AwaitingTrigger.
C1_Witness ==
    /\ interruptions = MaxInterrupts
    /\ state = "Idle"
    /\ pc = "loop_top"

\* C2: in every Speaking phase start_monitoring() precedes the begin of
\* speak(reply) and the signal is clear when it is called and when it
\* returns; reset() is called after speak returned and before the next
\* recording or the next wait for the trigger begins.
C2_RearmedAndCleared ==
    [][ /\ (pc = "speak_reply" /\ ppc = "call" /\ ppc' # "call")
             => (log = <<"start">> /\ is_monitoring /\ thr # "none")
        /\ (pc = "start_mon" /\ pc' = "speak_reply")
             => (~check_interrupt /\ ~check_interrupt')
        /\ ("speak" \in Range(log) /\ pc' \in {"wait_trigger", "fu_record"} /\ pc' # pc)
             => (/\ "ret" \in Range(log)
                 /\ "reset" \in Range(log)
                 /\ First(log, "ret") < First(log, "reset")) ]_vars

\* C2 witness: the Speaking phase after the last counted interruption was
\* itself interrupted and has run start, speak, return, check, stop, reset.
C2_Witness ==
    /\ interruptions = MaxInterrupts
    /\ pc = "followup"
    /\ log = <<"start", "speak", "ret", "check", "stop", "reset">>

\* C3: after every speak(reply), on the normal path and on every exception
\* path, check_interrupt() is read before stop_monitoring() is called, and
\* reset() is called only after both.
C3_CheckBeforeStop ==
    /\ "stop" \in Range(log) => First(log, "check") < First(log, "stop")
    /\ "reset" \in Range(log) => /\ First(log, "check") < First(log, "reset")
                                 /\ First(log, "stop") < First(log, "reset")

\* C4: when the signal is set at the call of stop_monitoring(), a
\* check_interrupt() made after that call has returned and before any reset()
\* returns True.
C4_StopKeepsSignal ==
    (set_at_stop /\ last_check # "none") => last_check = "true"

\* C4 witness: the signal was set at the stop, the stop has returned and the
\* caller has read the signal.
C4_Witness ==
    /\ set_at_stop
    /\ hpc = "idle"
    /\ ~is_monitoring
    /\ last_check = "true"

\* C5: once the signal has been raised, check_interrupt() returns True until
\* reset() is called, whatever start_monitoring, stop_monitoring and
\* check_interrupt calls and frames come in between.
C5_SetUntilReset == raised => check_interrupt

\* C6: when the signal is raised while _play_with_interruption is playing
\* and the device has not finished, the call ends as Cancelled (a call that
\* ended in a device failure aside).
C6_InterruptCancels ==
    (pc = "speak_reply" /\ ppc = "ret" /\ onset_playing /\ outcome # "Failed")
        => outcome = "Cancelled"

\* C7 as stated, for the speak calls that played the reply (to its end, or
\* until cancelled): the controller is in FollowUp only after a cancelled
\* call, a call that completed naturally is followed by AwaitingTrigger.
C7_FollowUpOnlyAfterCancel ==
    (state = "FollowUp" /\ outcome \in {"Completed", "Cancelled"})
        => outcome = "Cancelled"

\* C7 amended: the controller leaves Speaking for FollowUp exactly when the
\* signal was set at its own check_interrupt() read after speak returned, and
\* for AwaitingTrigger otherwise; a cancelled speak call is always followed
\* by FollowUp.
C7_FollowUpIffSignalRead ==
    [][ /\ (pc \in {"speak_reply", "fin_check"} /\ pc' = "fin_stop")
             => was_interrupted' = check_interrupt
        /\ (pc = "decide" /\ pc' # "decide")
             => /\ state = "Speaking"
                /\ state' = (IF was_interrupted THEN "FollowUp" ELSE "AwaitingTrigger")
                /\ (outcome = "Cancelled" => was_interrupted) ]_vars

\* C7 witness: FollowUp entered after a cancelled speak call.
C7_Witness ==
    /\ state = "FollowUp"
    /\ outcome = "Cancelled"
    /\ was_interrupted

\* C8: after a failure of stt.transcribe or llm.respond run_loop has not
\* terminated and the controller is in AwaitingTrigger.
C8_ModelFailureEndsTurnOnly ==
    exc \in {"stt", "llm"} => (pc # "raised" /\ state = "AwaitingTrigger")

\* C9: after a failure of record_to_wav to open the input stream run_loop
\* has not terminated and the controller is in AwaitingTrigger.
C9_RecordFailureEndsTurnOnly ==
    exc = "record" => (pc # "raised" /\ state = "AwaitingTrigger")

\* C10: no error of the output device leaves InterruptibleTTS.speak as an
\* exception, on the Coqui path and on the pyttsx3 path.
C10_SpeakNeverRaisesDeviceError == ~(ppc = "raised" /\ exc = "tts")

\* the program points of run_loop that call record_to_wav, stt.transcribe,
\* speak(apology) and speak("Thinking")
RecordSites == {"record", "fu_record"}
TranscribeSites == {"transcribe", "fu_transcribe"}
ApologySites == {"speak_apology", "fu_speak_apology"}
ThinkingSites == {"speak_thinking", "fu_speak_thinking"}

\* C11: a recording that ended by the no-speech timeout (no voiced frame,
\* hasSpeech = false) is not passed to stt.transcribe: every call of
\* stt.transcribe is for a recording with a voiced frame.
C11_NoSpeechNotTranscribed ==
    [][ (pc \in TranscribeSites /\ pc' # pc) => utterance.hasSpeech ]_vars

\* C12, for recordings whose duration the controller could read: after an
\* empty transcript, on the initial and on every follow-up recording, the
\* apology is spoken (once), and after it the controller is at the top of
\* the loop in AwaitingTrigger: no llm.respond, no FollowUp, no Speaking.
C12_EmptyTranscriptApology ==
    [][ /\ (pc \in TranscribeSites /\ duration >= MinDuration
              /\ pc' \notin ({pc, "raised"} \cup ThinkingSites))
             => pc' \in ApologySites
        /\ (pc \in ApologySites /\ pc' # pc)
             => (pc' = "loop_top" /\ state' = "AwaitingTrigger") ]_vars

\* C13 as stated: no recording shorter than 0.3 s is passed to
\* stt.transcribe, on the initial and on every follow-up recording.
C13_ShortNeverTranscribed ==
    pc \in TranscribeSites => utterance.len >= MinDuration

\* C13 amended: on both recordings a duration read from the file and below
\* 0.3 s ends the turn at once (no stt.transcribe, no apology) and the wait
\* for the trigger is next; a duration that could not be read skips the
\* gate, and an empty transcript then ends the turn without the apology.
C13_GateOnMeasuredDuration ==
    [][ /\ (pc \in RecordSites /\ pc' \notin {pc, "raised"})
             => IF duration' = utterance'.len /\ duration' < MinDuration
                THEN pc' = "loop_top" /\ state' = "Idle" /\ ppc' = "idle"
                ELSE /\ pc' = (IF pc = "record" THEN "transcribe" ELSE "fu_transcribe")
                     /\ duration' \in {0, utterance'.len}
        /\ (pc \in TranscribeSites /\ duration < MinDuration
              /\ pc' \notin ({pc, "raised"} \cup ThinkingSites))
             => pc' = "loop_top"
        /\ (pc = "loop_top" /\ pc' # pc) => pc' = "wait_trigger" ]_vars

\* C13 witness: a follow-up recording was read as too short, the turn has
\* ended without a transcription.
C13_Witness ==
    /\ interruptions >= 1
    /\ pc = "loop_top"
    /\ state = "Idle"
    /\ duration = utterance.len
    /\ duration < MinDuration

\* C14: a recording without a voiced frame stops at the first frame at which
\* the elapsed time exceeds the no-speech timeout, by that rule, and at no
\* frame before it.
C14_NoSpeechStopsAtTimeout ==
    [][ /\ (rpc = "loop" /\ rpc' = "write" /\ ~rec_speech_detected')
             => /\ stop_rule' = "no_speech"
                /\ rec_elapsed' > NoSpeechMs
                /\ rec_elapsed <= NoSpeechMs
        /\ (rpc = "loop" /\ rpc' = "loop" /\ ~rec_speech_detected')
             => rec_elapsed' <= NoSpeechMs ]_vars

\* C14 witness: frames arrived one frame time apart, none voiced, and the
\* recording was stopped by the no-speech rule and written.
C14_Witness ==
    /\ rpc = "done"
    /\ ~rec_speech_detected
    /\ stop_rule = "no_speech"
    /\ stalls = 0
    /\ rec_elapsed <= NoSpeechMs + FrameMs

\* C15 as stated, its lower bound, for frames that arrive one frame time
\* apart: a recording with a voiced frame has stopped no earlier than the
\* silence tail after its last voiced frame.
C15_TailAfterLastVoiced ==
    (rpc \in {"write", "done"} /\ rec_speech_detected /\ stalls = 0)
        => rec_elapsed - last_speech_time >= SilenceTailMs

\* C15 amended: a recording with a voiced frame stops either by the silence
\* rule, no earlier than the silence tail after the last voiced frame, or by
\* the max-duration rule at the first frame whose elapsed time exceeds
\* max_seconds; no frame is read after such a frame.
C15_TailOrMax ==
    [][ /\ (rpc = "loop" /\ rpc' = "write" /\ rec_speech_detected')
             => \/ /\ stop_rule' = "silence"
                   /\ rec_elapsed' - last_speech_time' >= SilenceTailMs
                \/ /\ stop_rule' = "max"
                   /\ rec_elapsed' > MaxMs
                   /\ rec_elapsed <= MaxMs
        /\ (rpc = "loop" /\ rpc' = "loop") => rec_elapsed' <= MaxMs ]_vars

\* C15 witness: speech went on until max_seconds; the recording was stopped
\* by the max-duration rule less than a silence tail after a voiced frame.
C15_Witness ==
    /\ rpc = "done"
    /\ rec_speech_detected
    /\ stop_rule = "max"
    /\ stalls = 0
    /\ rec_elapsed - last_speech_time < SilenceTailMs

\* C16: frames holds every frame read so far, in arrival order, and when
\* record_to_wav has returned the file is written and holds those frames, up
\* to and including the frame at which the stop rule fired.
C16_EveryFrameSaved ==
    /\ rpc \in {"loop", "write", "done"} => frames = [i \in 1..read |-> i]
    /\ rpc = "done" => /\ written
                       /\ saved = frames
                       /\ read >= 1
                       /\ stop_rule # "none"

\* C16 witness: a written recording that ends with the unvoiced frames of a
\* silence tail.
C16_Witness ==
    /\ rpc = "done"
    /\ written
    /\ stop_rule = "silence"
    /\ stalls = 0
    /\ Len(saved) = read
    /\ rec_elapsed - last_speech_time >= SilenceTailMs

\* C17: on each frame the rules are tried in the order no-speech timeout,
\* silence tail, max-duration and the first that holds ends the recording;
\* the silence rule holds only with a voiced frame seen, a silence of at
\* least silence_tail_ms and at least min_frames frames.
C17_RuleOrder ==
    [][ (rpc = "loop" /\ rpc' \in {"loop", "write"}) =>
          LET a == ~rec_speech_detected' /\ rec_elapsed' > NoSpeechMs
              b == /\ rec_speech_detected'
                   /\ rec_elapsed' - last_speech_time' >= SilenceTailMs
                   /\ Len(frames') >= min_frames
              c == rec_elapsed' > MaxMs
          IN /\ stop_rule' = (IF a THEN "no_speech"
                              ELSE IF b THEN "silence"
                              ELSE IF c THEN "max" ELSE "none")
             /\ (rpc' = "write") = (a \/ b \/ c) ]_vars

\* C17 witness: at the stopping frame both the silence rule and the
\* max-duration rule held, and the recording ended by the silence rule.
C17_Witness ==
    /\ rpc = "done"
    /\ stop_rule = "silence"
    /\ rec_elapsed > MaxMs
    /\ Len(frames) >= min_frames

\* the qualifying blocks at the end of a history
RECURSIVE Trailing(_)
Trailing(h) ==
    IF h = <<>> \/ h[Len(h)] <= Threshold THEN 0
    ELSE 1 + Trailing(SubSeq(h, 1, Len(h) - 1))

\* C18: the signal is raised only by the thread evaluating a block above the
\* threshold right after OnsetFrames - 1 blocks above it; a block at or
\* below the threshold sets the count to zero and raises nothing; the count
\* is the number of qualifying blocks evaluated last in a row.
C18_OnsetNeedsThree ==
    [][ /\ (check_interrupt' /\ ~check_interrupt)
             => /\ thr = "get" /\ thr' = "done"
                /\ q # <<>>
                /\ Head(q) > Threshold
                /\ Len(seen) = OnsetFrames - 1
                /\ \A i \in DOMAIN seen : seen[i] > Threshold
        /\ (thr = "get" /\ thr' # "get" /\ q # <<>> /\ Head(q) <= Threshold)
             => (csf' = 0 /\ speech_detected' = speech_detected)
        /\ (thr' \in {"head", "get"} /\ Len(seen') < OnsetFrames - 1)
             => csf' = Trailing(seen')
        /\ (thr' \in {"head", "get"}) => csf' <= Trailing(seen') ]_vars

\* C18 witness: the thread has raised the signal of a running session.
C18_Witness ==
    /\ hpc = "idle"
    /\ is_monitoring
    /\ stream = "active"
    /\ thr = "done"
    /\ check_interrupt

\* C19: after reset() on a monitor that is still started, frames are
\* evaluated again: a started monitor whose signal is clear has a detection
\* thread that is running.
C19_EvaluatesAfterReset ==
    (hpc = "idle" /\ is_monitoring /\ stream = "active" /\ ~check_interrupt)
        => thr \in {"head", "get"}

\* C20: reset() never raises, and a reset() that follows a reset() directly
\* changes nothing but the flag and leaves the signal clear, on a monitor
\* never started, monitoring or stopped.
C20_ResetIdempotent ==
    [][ /\ (hpc = "idle" => ENABLED MonCallReset)
        /\ (MonCallReset /\ resets >= 1)
             => /\ ~check_interrupt'
                /\ UNCHANGED <<has_event, is_monitoring, stream, q, thr>> ]_vars

\* C20 witness: two reset() calls in a row on a monitor never started.
C20_Witness ==
    /\ resets = 2
    /\ ~has_event
    /\ stream = "none"
    /\ ~check_interrupt

\* the program points of run_loop from the call of start_monitoring() to the
\* return of stop_monitoring()
MonitoredSites == {"speak_reply", "exc_join", "fin_check", "fin_stop", "fin_join"}

FramesWithinMax == MaxMs \div FrameMs

\* what bounds a record_to_wav call: while the loop goes on every frame read
\* arrived within max_seconds, each iteration reads one more frame, and the
\* loop is left at the latest with the first frame after max_seconds
RecorderBounded ==
    /\ (rpc = "loop" /\ rpc' = "loop")
         => /\ read' = read + 1
            /\ rec_elapsed' <= MaxMs
            /\ read' <= FramesWithinMax
    /\ (rpc = "loop" /\ rpc' = "write")
         => /\ read' = read + 1
            /\ read' <= FramesWithinMax + 1

\* what makes the polling loop advance: an iteration that stays in the loop
\* adds one interval to the estimate, and the drain ends once the device no
\* longer plays
PlayerAdvances ==
    /\ (ppc = "loop" /\ ppc' = "loop" /\ device' = device)
         => elapsed' = elapsed + 1
    /\ (ppc = "drain" /\ device # "playing") => ENABLED Drain

\* C22 as stated: no blocking call runs forever; record_to_wav ends after
\* the frames arriving within max_seconds plus one, _play_with_interruption
\* after at most ceil(total_duration / 0.05) polling ticks plus the drain
\* (`total` is that number of ticks)
C22_TicksAtMostCeil ==
    [][ /\ RecorderBounded
        /\ PlayerAdvances
        /\ (ppc = "loop" /\ ppc' = "loop") => elapsed' <= total ]_vars

\* C22: no blocking call runs forever; record_to_wav ends after the frames
\* arriving within max_seconds plus one, _play_with_interruption after at
\* most ceil(total_duration / 0.05) + 1 polling ticks plus the drain
C22_BlockingCallsBounded ==
    [][ /\ RecorderBounded
        /\ PlayerAdvances
        /\ (ppc = "loop" /\ ppc' = "loop") => elapsed' <= total + 1 ]_vars

\* a recording that ran into max_seconds and read one frame more, made after
\* a playback that ended by the drain
C22_Witness ==
    /\ rpc = "write"
    /\ stop_rule = "max"
    /\ read = FramesWithinMax + 1
    /\ outcome = "Completed"

\* C23: whenever a trigger fires (the recording of a turn begins), the
\* controller eventually returns to AwaitingTrigger, every call returning
\* with a value or a failure, unless Speaking is interrupted again and
\* again without end; a turn the user ends with Ctrl-C is left out
C23_TriggerLeadsToAwaiting ==
    \/ []<>(pc = "followup")
    \/ (state = "Recording" /\ pc = "record")
          ~> (state = "AwaitingTrigger" \/ exc = "kbd")

\* the same for the turns in which no call raises
C23_TurnWithoutFailureReturns ==
    \/ []<>(pc = "followup")
    \/ (state = "Recording" /\ pc = "record")
          ~> (state = "AwaitingTrigger" \/ exc # "none")

\* C24: no automatic retry; when synthesis or playback of a text fails
\* inside InterruptibleTTS.speak, speak does not synthesize or play the same
\* text a second time: the engine's own speak (a second tts_to_file of the
\* text, then pyttsx3) is never run on a text whose synthesis has failed
C24_NoSecondAttempt ==
    /\ ppc # "fallback"
    /\ outcome # "Fallback"

\* C25: a playback failure is treated like a natural completion; after a
\* speak(reply) whose playback failed (swallowed by the Coqui path, raised
\* by the pyttsx3 engine) the controller leaves the finally clause for the
\* same test of was_interrupted, and from there goes to AwaitingTrigger when
\* no signal was read and to FollowUp otherwise, without a second speak
C25_FailureLikeCompletion ==
    [][ /\ (/\ pc = "fin_join" /\ pc' # pc
            /\ outcome \in {"Failed", "Raised"} /\ exc # "kbd")
              => pc' = "decide"
        /\ (pc = "decide" /\ pc' # pc /\ outcome = "Failed")
              => IF was_interrupted
                 THEN state' = "FollowUp" /\ pc' = "followup"
                 ELSE state' = "AwaitingTrigger" /\ pc' = "loop_top" ]_vars

\* the same on the Coqui path alone, where speak swallows the failure
C25_CoquiFailureLikeCompletion ==
    [][ tts_kind = "coqui" =>
        /\ (pc = "fin_join" /\ pc' # pc /\ outcome = "Failed") => pc' = "decide"
        /\ (pc = "decide" /\ pc' # pc /\ outcome = "Failed")
              => IF was_interrupted
                 THEN state' = "FollowUp" /\ pc' = "followup"
                 ELSE state' = "AwaitingTrigger" /\ pc' = "loop_top" ]_vars

\* the positions of the player inside _play_with_interruption
InsidePlay == {"loop", "after", "drain", "handler"}

\* C26: at most one playback session is in flight, owned by the player for
\* the duration of the call: is_speaking is true only while
\* _play_with_interruption is executing, a session begins only when none is
\* in flight, and is_speaking is false again on every exit path (natural
\* completion, cancellation, device error)
C26_SpeakingOnlyInsidePlay ==
    [][ /\ is_speaking' => ppc' \in InsidePlay
        /\ (is_speaking' /\ ~is_speaking) => (ppc = "play" /\ ~(ppc \in InsidePlay))
        /\ (ppc \in InsidePlay /\ ~(ppc' \in InsidePlay))
             => /\ ~is_speaking'
                /\ \/ ppc' = "ret" /\ outcome' \in {"Completed", "Cancelled", "Failed"}
                   \/ ppc' = "raised" /\ outcome' = "Raised" ]_vars

\* a call that ended on the device-error path
C26_Witness ==
    /\ ppc = "ret"
    /\ outcome = "Failed"
    /\ device = "stopped"
    /\ ~is_speaking

\* C27: the controller moves from AwaitingTrigger to Recording when, and
\* only when, the trigger fires: the wait for the trigger (wake.listen in
\* wake-word mode, input() in keyboard mode) ends by returning normally,
\* Recording follows, and AwaitingTrigger is left in no other way; Ctrl-C
\* at the keyboard prompt ends run_loop
C27_TriggerMovesToRecording ==
    [][ /\ (state = "AwaitingTrigger" /\ state' # state)
             => (pc = "wait_trigger" /\ state' = "Recording")
        /\ (pc = "wait_trigger" /\ pc' # pc)
             => \/ pc' = "record" /\ state' = "Recording"
                \/ ~use_wake_word /\ pc' = "returned" ]_vars

\* C28: no interruption detected while the monitor is armed is lost; when
\* the detection thread has set the signal between start_monitoring() and
\* the completion of stop_monitoring() of a Speaking phase (`raised`), the
\* controller enters FollowUp for that phase
C28_NoInterruptionLost ==
    [][ (pc = "decide" /\ pc' # pc /\ raised)
          => (state' = "FollowUp" /\ pc' = "followup") ]_vars

\* C29: the signal of a monitoring session depends only on blocks captured
\* during that session; a block left in the queue by an earlier session
\* (`stale` counts those still at the head of q) is never counted toward the
\* onset: taking it neither advances the count nor sets the signal
C29_StaleBlocksNotCounted ==
    [][ (thr = "get" /\ stale > 0 /\ q' # q)
          => (csf' = 0 /\ speech_detected' = speech_detected) ]_vars

\* C30: check_interrupt() is read-only; the poll that cancels the playback
\* and the controller's read in the finally clause leave the signal as it
\* is, so after a playback cancelled by the poll the controller's own read
\* is true and the controller enters FollowUp, never AwaitingTrigger
C30_CancelledEntersFollowUp ==
    [][ /\ (ppc = "loop" /\ stop_playback' /\ ~stop_playback)
             => (check_interrupt /\ check_interrupt'
                 /\ speech_detected' = speech_detected /\ has_event' = has_event)
        /\ (pc' = "fin_stop" /\ pc # "fin_stop")
             => /\ speech_detected' = speech_detected /\ has_event' = has_event
                /\ was_interrupted' = check_interrupt'
                /\ outcome = "Cancelled" => was_interrupted'
        /\ (pc = "decide" /\ pc' # pc /\ outcome = "Cancelled")
             => (state' = "FollowUp" /\ pc' = "followup") ]_vars

\* the follow-up branch entered after a cancelled reply
C30_Witness ==
    /\ pc = "followup"
    /\ state = "FollowUp"
    /\ outcome = "Cancelled"
    /\ was_interrupted

\* the place of a step in the order of a tick
Rank(c) ==
    CASE c = "stop_check" -> 1
      [] c = "poll" -> 2
      [] c \in {"level", "level_raised"} -> 3
      [] c \in {"ui", "ui_raised"} -> 4
      [] OTHER -> 5

InOrder(cs) == \A i, j \in DOMAIN cs : i < j => Rank(cs[i]) < Rank(cs[j])

\* C31: on every polling tick the steps run in the order local cancellation
\* check, interruptPoll, level callback, device-finished check, the check of
\* the flag first; a tick that finds the flag set calls neither the poll nor
\* the level callback; after the loop speak waits for the device to drain
\* when the flag is not set and does not wait when it is
C31_TickOrder ==
    [][ /\ InOrder(calls')
        /\ calls' # <<>> => calls'[1] = "stop_check"
        /\ (ppc = "t_stop" /\ ppc' # ppc /\ stop_playback)
             => (ppc' = "after" /\ calls' = <<"stop_check">>)
        /\ (ppc = "after" /\ ppc' # ppc)
             => ppc' = (IF stop_playback THEN "ret" ELSE "drain")
        /\ (ppc = "drain" /\ ppc' # ppc) => device # "playing" ]_vars

\* a tick that made every step, up to the sleep
C31_Witness ==
    /\ ppc = "t_sleep"
    /\ calls = <<"stop_check", "poll", "level", "ui", "device">>

\* the program points of run_loop that call llm.respond
RespondSites == {"respond", "fu_respond"}

\* C32: llm.respond is called once for every non-empty transcript whose
\* "Thinking" announcement returned, and only then; `reply` is assigned by
\* that call alone; every Speaking phase is entered from such a call, so
\* after an interruption the reply spoken next is the one generated from
\* the follow-up transcript, never the interrupted one (which the follow-up
\* has dropped)
C32_ReplyFromLatestTranscript ==
    [][ /\ (pc' \in ThinkingSites /\ pc' # pc) => pc \in TranscribeSites
        /\ (pc' \in RespondSites /\ pc' # pc) => (pc \in ThinkingSites /\ ppc = "ret")
        /\ (pc \in ThinkingSites /\ ppc = "ret" /\ pc' # pc) => pc' \in RespondSites
        /\ (pc' = "start_mon" /\ pc' # pc)
             => (pc \in RespondSites /\ reply' \in {"empty", "words"})
        /\ (pc' = "speak_reply" /\ pc' # pc) => (pc = "start_mon" /\ reply' = reply)
        /\ reply' # reply => (pc \in RespondSites \/ reply' = "none")
        /\ (pc = "followup" /\ pc' # pc) => reply' = "none"
        /\ pc' = "speak_reply" => reply' # "none" ]_vars

\* the reply of a follow-up being spoken
C32_Witness ==
    /\ pc = "speak_reply"
    /\ state = "Speaking"
    /\ interruptions > 0
    /\ reply = "words"
    /\ ppc = "loop"

\* C33: interrupt() called while no playback is in progress changes
\* nothing; called while one is in progress (is_speaking) it sets the stop
\* flag and stops the device, the flag stays set for the rest of the call,
\* so that the polling loop exits at its next tick and speak does not wait
\* for the drain; every call clears the flag at its entry
C33_InterruptStopsPlayback ==
    [][ /\ (ipc = "idle" /\ ipc' # ipc) => is_speaking
        /\ (ipc = "set" /\ ipc' # ipc /\ is_speaking)
             => (stop_playback' /\ device' = "stopped")
        /\ (is_speaking /\ is_speaking' /\ stop_playback) => stop_playback'
        /\ (ppc = "t_stop" /\ ppc' # ppc /\ stop_playback) => ppc' = "after"
        /\ (ppc = "after" /\ ppc' # ppc /\ stop_playback) => ppc' = "ret"
        /\ (ppc = "p_clear" /\ ppc' # ppc) => ~stop_playback' ]_vars

\* the same from the clearing of the flag on: a flag set after line 89 stays
\* set to the end of the call, ends the loop at the next test of the flag
\* and skips the wait
C33_FlagKeptAfterClear ==
    [][ /\ (is_speaking /\ is_speaking' /\ stop_playback /\ ppc # "p_clear")
             => stop_playback'
        /\ (ppc = "t_stop" /\ ppc' # ppc /\ stop_playback) => ppc' = "after"
        /\ (ppc = "after" /\ ppc' # ppc /\ stop_playback) => ppc' = "ret"
        /\ (ppc = "p_clear" /\ ppc' # ppc) => ~stop_playback' ]_vars

\* C34: what the level callback or the UI hook raises during a tick is
\* swallowed: the tick goes on to its next step and nothing of the playback
\* (flag, device, estimate, outcome) differs from a tick whose callback
\* returned; what the interrupt callback raises ends the playback in the
\* handler, with the device stopped, is_speaking cleared and the call
\* returning to speak instead of raising
C34_CallbackErrorsContained ==
    [][ /\ (ppc = "t_level" /\ ppc' # ppc)
             => /\ ppc' = "t_ui"
                /\ UNCHANGED <<is_speaking, stop_playback, device, elapsed,
                               total, outcome>>
        /\ (ppc = "t_ui" /\ ppc' # ppc)
             => /\ ppc' = "t_dev"
                /\ UNCHANGED <<is_speaking, stop_playback, device, elapsed,
                               total, outcome>>
        /\ (ppc = "t_poll" /\ ppc' # ppc)
             => /\ ppc' \in {"t_level", "after", "handler"}
                /\ ppc' = "handler" => UNCHANGED <<is_speaking, stop_playback,
                                                   device, outcome>>
        /\ (ppc = "handler" /\ ppc' # ppc)
             => /\ ppc' = "ret"
                /\ device' = "stopped"
                /\ ~is_speaking'
                /\ outcome' = "Failed" ]_vars

\* a playback that completed although both the level callback and the UI
\* hook raised in its last tick
C34_Witness ==
    /\ ppc = "ret"
    /\ outcome = "Completed"
    /\ \E i \in DOMAIN calls : calls[i] = "level_raised"
    /\ \E j \in DOMAIN calls : calls[j] = "ui_raised"

\* a playback ended by its handler in a tick whose interrupt callback was
\* the last thing called
C34_PollRaisedWitness ==
    /\ ppc = "ret"
    /\ outcome = "Failed"
    /\ calls = <<"stop_check", "poll">>
    /\ device = "stopped"
    /\ ~is_speaking

\* the positions of _play_with_interruption from the first test of the loop
\* to the return
AfterPlayIssued ==
    {"loop", "t_stop", "t_poll", "t_level", "t_ui", "t_dev", "t_sleep",
     "after", "drain"}

\* C35: a call writes to the device once, at sd.play and with the whole
\* buffer (the playback lasts Len(audio) chunks), before the first test of
\* the loop; from there to the return the count of writes stays 1, the
\* source buffer is not changed and the only thing the player does to the
\* device is to stop it
C35_BufferIssuedOnce ==
    [][ /\ ppc' \in AfterPlayIssued => writes' = 1
        /\ writes' # writes
             => \/ ppc = "p_play" /\ writes = 0 /\ writes' = 1
                \/ ppc = "idle" /\ ppc' = "play" /\ writes' = 0
        /\ (ppc = "p_play" /\ ppc' = "loop")
             => total' = Len(audio) /\ device' = "playing" /\ elapsed' = 0
        /\ (ppc \in AfterPlayIssued /\ ppc' # ppc)
             => /\ audio' = audio
                /\ device' \in {device, "stopped"}
                /\ device' = "playing" => device = "playing" ]_vars

\* the second tick of a playback of two chunks, about to sleep
C35_Witness ==
    /\ ppc = "t_sleep"
    /\ elapsed = 1
    /\ Len(audio) = 2
    /\ writes = 1
    /\ device = "playing"

\* C36: the level callback is called at most once in a tick, at the level
\* step, only when a callback was given, and with the RMS of the slice at
\* the estimate; while the estimate is inside the buffer that is the level
\* of the chunk at the estimate, passed on exactly when it is above the
\* noise floor; a silent slice, a slice at the floor or no slice at all
\* means no call
C36_LevelOfCurrentSlice ==
    [][ /\ sent' # sent
             => \/ ppc = "idle" /\ ppc' = "play" /\ sent' = <<>>
                \/ /\ ppc = "t_level" /\ ppc' = "t_ui"
                   /\ cbs.level
                   /\ \E lv \in slice_levels(elapsed) :
                         lv > NoiseFloor /\ sent' = Append(sent, lv)
        /\ (ppc = "t_level" /\ ppc' # ppc /\ elapsed < Len(audio))
             => sent' = IF cbs.level /\ audio[elapsed + 1] > NoiseFloor
                        THEN Append(sent, audio[elapsed + 1])
                        ELSE sent
        /\ (ppc = "t_level" /\ ppc' # ppc /\ slice_levels(elapsed) = {0})
             => sent' = sent /\ calls' = calls
        /\ \A i \in DOMAIN sent' : sent'[i] > NoiseFloor ]_vars

\* the second tick of a buffer whose first chunk is loud and whose second
\* chunk is silent: one call, for the first chunk
C36_Witness ==
    /\ ppc = "t_ui"
    /\ cbs.level
    /\ audio = <<NoiseFloor + 1, 0>>
    /\ elapsed = 1
    /\ sent = <<NoiseFloor + 1>>

\* run_loop's reading of a recording: frames / framerate of the file, in
\* ms (each frame holds frame_len samples), and the test `duration < 0.3`
file_duration_ms(fr) == (Len(fr) * frame_len * 1000) \div SampleRate
too_short(fr) == file_duration_ms(fr) < MinDuration * 100

\* C37: when every frame of a call arrived one frame time after the one
\* before, the call has stopped only after more than the silence tail of
\* elapsed time, and the frames it holds and the file it has written are
\* not below the controller's 0.3 s: the test `duration < 0.3` fails on
\* that file
C37_RecordingNeverTooShort ==
    (rpc \in {"write", "done"} /\ stalls = 0)
        => /\ rec_elapsed > SilenceTailMs
           /\ rec_elapsed = Len(frames) * FrameMs
           /\ ~too_short(frames)
           /\ rpc = "done" => written /\ ~too_short(saved)

\* the shortest recording there is: one voiced frame and the silence tail
C37_Witness ==
    /\ rpc = "done"
    /\ stalls = 0
    /\ stop_rule = "silence"
    /\ file_duration_ms(saved) = SilenceTailMs + FrameMs

\* without the assumption: a read that took as long as the no-speech
\* timeout ends the recording after one frame, and the file is below 0.3 s
C37_StalledRecordingShort ==
    /\ rpc = "done"
    /\ stalls > 0
    /\ too_short(saved)

\* C38: listen() of either backend returns only by a detection: a wake
\* phrase matched in the transcription (wakeword_whisper) or the trigger
\* test passed on a prediction (wakeword_open); after an error, a chunk
\* without a match or a second without audio it is still listening
C38_ListenReturnsOnDetection ==
    [][ (wpc' = "returned" /\ wpc # "returned") => wk_last' = "detected" ]_vars

\* the same for the Whisper backend alone, the one main.py imports
C38_WhisperReturnsOnDetection ==
    [][ (wk_backend = "whisper" /\ wpc' = "returned" /\ wpc # "returned")
           => wk_last' = "detected" ]_vars

\* what else ends listen() by a return: only queue.Empty of wakeword_open,
\* with no block in the queue
C38_ReturnsOnDetectionOrTimeout ==
    [][ (wpc' = "returned" /\ wpc # "returned")
           => \/ wk_last' = "detected"
              \/ wk_last' = "timeout" /\ wk_backend = "open" /\ wq = 0 ]_vars

\* wakeword_open: listen() has returned on queue.Empty
C38_ReturnedOnTimeout ==
    /\ wk_backend = "open"
    /\ wpc = "returned"
    /\ wk_last = "timeout"

\* wakeword_whisper: listen() has returned on a matched phrase
C38_WhisperDetected ==
    /\ wk_backend = "whisper"
    /\ wpc = "returned"
    /\ wk_last = "detected"

================================================================
